---- MODULE Spec2Model ----
(***************************************************************************)
(* The behavioural verification engine of equity-map-2026: the             *)
(* BehaviorAnalyzer class (telemetry collector and scoring engine) and the *)
(* RhythmCaptcha component (challenge orchestrator) that owns one.         *)
(*                                                                         *)
(* Time.  The program reads the wall clock (Date.now()) and only ever uses *)
(* differences of the values it read.  The model keeps every stored        *)
(* timestamp relative to the current instant: the clock reads Now = 0 in   *)
(* every state, a timestamp taken d ms ago is -d, and a pending timer      *)
(* holds the ms left until it is due.  Elapse (with ShiftT, ShiftRef and   *)
(* ShiftAnalyzer) moves everything d ms into the past.  The                *)
(* literal timestamp 0 (lastMouseTime = 0, lastMouseTrackRef = 0) is the   *)
(* 1970 epoch, Epoch, which stays out of reach of any session.             *)
(*                                                                         *)
(* Numbers.  Floating point values are kept exact: a fraction is a record  *)
(* [n, d]; a velocity sqrt(d2)/dt is the pair [d2, dt]; a path angle is a  *)
(* multiple of pi/4 (pointer steps of the model are along the 8 compass    *)
(* directions); the timing deviation is kept as the sum of squares it is   *)
(* the root of.  Every threshold test of the code is decided exactly.      *)
(***************************************************************************)
EXTENDS Integers, Sequences, FiniteSets, TLC

VARIABLES
    \* React state of RhythmCaptcha
    phase, mode, result, currentPattern, userTaps, activeCircle,
    circleResults, circlePhase, clickedThisRound, checking, hasReported,
    \* refs of RhythmCaptcha
    analyzer, audioCtx, patternStart, circleTimer, lastMouseTrack,
    \* the event loop: pending setTimeout callbacks
    timers,
    \* the embedding flow and the user
    session, calls, user,
    \* the input script of the collector-only specifications
    script,
    \* the input, and then the outcome, of a task evaluation run on its own
    probe,
    \* React state of the ContributorForm around the component
    form

vars == << phase, mode, result, currentPattern, userTaps, activeCircle,
           circleResults, circlePhase, clickedThisRound, checking, hasReported,
           analyzer, audioCtx, patternStart, circleTimer, lastMouseTrack,
           timers, session, calls, user, script, probe, form >>

-----------------------------------------------------------------------------
(* Bounds of the model *)

\* retries (sessions after the first) explored
MaxRetries == 1
\* rhythm taps recorded by one collector
MaxTaps == 10
\* replays of the pattern the user asks for
MaxReplays == 1
\* pointer events of one session while the user only glances at the component
MaxMouse == 1
\* pointer events fed to a collector on its own, enough to overflow its window
MaxFeed == 180
\* pointer events of one session when the user sweeps over the component, and
\* of the short scripts that analyze is run on
MaxSamples == 12
\* taps or clicks fed to a collector on its own
MaxTimings == 3

-----------------------------------------------------------------------------
(* Program constants *)

WindowSize == 150
MouseThrottle == 30
TrackThrottle == 40
HumanThreshold == 55
Tolerance == 250
TOTAL_CIRCLES == 5
SettleDelay == 300
CheckingDelay == 2200
ListenGrace == 800
ExpiryPause == 400
ClickPause == 500
SubmitDelay == 2000
\* timestamp 0, seen from any instant of a session
Epoch == -1000000

RHYTHM_PATTERNS ==
    << << 0, 600, 1200, 1800, 2400, 3000, 3600, 4200 >>,
       << 0, 545, 1090, 1450, 2180, 2725, 3270, 3630, 4360 >>,
       << 0, 632, 948, 1580, 2212, 2528, 3160, 3792, 4108 >> >>

CIRCLE_POSITIONS ==
    << [x |-> 50, y |-> 35], [x |-> 25, y |-> 60], [x |-> 75, y |-> 50],
       [x |-> 40, y |-> 75], [x |-> 60, y |-> 28] >>

-----------------------------------------------------------------------------
(* Arithmetic helpers *)

Now == 0

Abs(i) == IF i < 0 THEN -i ELSE i

Min(i, j) == IF i < j THEN i ELSE j

Max(i, j) == IF i > j THEN i ELSE j

Sign(i) == IF i > 0 THEN 1 ELSE IF i < 0 THEN -1 ELSE 0

RECURSIVE Gcd(_, _)
Gcd(i, j) == IF j = 0 THEN i ELSE Gcd(j, i % j)

\* a fraction n/d, d > 0, in lowest terms
Frac(n, d) == LET g == Gcd(Abs(n), d) IN [n |-> n \div g, d |-> d \div g]

FracAdd(f, g) == Frac(f.n * g.d + g.n * f.d, f.d * g.d)

FracMul(f, g) == Frac(f.n * g.n, f.d * g.d)

FracLess(f, g) == f.n * g.d < g.n * f.d

\* Math.round of a non-negative fraction: the nearest integer, halves up
Round(f) == (2 * f.n + f.d) \div (2 * f.d)

\* addition that saturates at 10^9, above every threshold a sum is compared with
SatAdd(i, j) == Min(1000000000, i + j)

\* f[lo] + ... + f[hi], saturating, by halving the range
RECURSIVE SatSum(_, _, _)
SatSum(f, lo, hi) ==
    IF lo > hi THEN 0
    ELSE IF lo = hi THEN SatAdd(0, f[lo])
    ELSE LET mid == (lo + hi) \div 2
         IN  SatAdd(SatSum(f, lo, mid), SatSum(f, mid + 1, hi))

\* a timestamp d ms later, seen from the new instant
ShiftT(t, d) == IF t = Epoch THEN Epoch ELSE t - d

\* the same for a timestamp the program only ever tests with now - t < w:
\* once w ms old it is held there, every older value giving the same test
ShiftRef(t, d, w) == IF t = Epoch THEN Epoch ELSE Max(t - d, -w)

-----------------------------------------------------------------------------
(* BehaviorAnalyzer *)

NewAnalyzer ==
    [ mousePositions  |-> << >>,
      clickTimings    |-> << >>,
      tapTimings      |-> << >>,
      mouseVelocities |-> << >>,
      hesitations     |-> 0,
      microMovements  |-> 0,
      lastMouseTime   |-> Epoch,
      lastMousePos    |-> [x |-> 0, y |-> 0],
      startTime       |-> Now ]

\* the collector d ms later: every timestamp it holds lies d ms further back
ShiftAnalyzer(a, d) ==
    [ a EXCEPT
        !.mousePositions = [i \in 1..Len(a.mousePositions) |->
                               [a.mousePositions[i] EXCEPT !.t = ShiftT(@, d)]],
        !.clickTimings   = [i \in 1..Len(a.clickTimings) |-> ShiftT(a.clickTimings[i], d)],
        !.tapTimings     = [i \in 1..Len(a.tapTimings) |-> ShiftT(a.tapTimings[i], d)],
        !.lastMouseTime  = ShiftT(@, d),
        !.startTime      = ShiftT(@, d) ]

\* whether trackMouse keeps an event arriving now
Accepts(a) == ~ (Now - a.lastMouseTime < MouseThrottle)

\* a window that, once full, drops the arriving sample instead of the oldest
PushKeepOldest(s, e) == IF Len(s) >= WindowSize THEN s ELSE Append(s, e)

\* the sequence after push and, past the window, shift
PushBounded(s, e) ==
    LET t == Append(s, e) IN IF Len(t) > WindowSize THEN Tail(t) ELSE t

\* trackMouse remembering the position of a dropped event as well
TrackMouseFromLastEvent(a, x, y) ==
    LET dt   == Now - a.lastMouseTime
        dx   == x - a.lastMousePos.x
        dy   == y - a.lastMousePos.y
        d2   == dx * dx + dy * dy
        velocity == IF dt > 0 THEN [d2 |-> d2, dt |-> dt] ELSE [d2 |-> 0, dt |-> 1]
    IN  IF dt < MouseThrottle THEN [a EXCEPT !.lastMousePos = [x |-> x, y |-> y]]
        ELSE [ a EXCEPT
                 !.mousePositions  = PushBounded(@, [x |-> x, y |-> y, t |-> Now]),
                 !.mouseVelocities = PushBounded(@, velocity),
                 !.microMovements  = IF d2 > 0 /\ d2 < 3 * 3 THEN @ + 1 ELSE @,
                 !.hesitations     = IF dt > 200 /\ d2 > 5 * 5 THEN @ + 1 ELSE @,
                 !.lastMouseTime   = Now,
                 !.lastMousePos    = [x |-> x, y |-> y] ]

\* trackMouse evicting from the positions only
TrackMouseKeepVelocities(a, x, y) ==
    LET dt   == Now - a.lastMouseTime
        dx   == x - a.lastMousePos.x
        dy   == y - a.lastMousePos.y
        d2   == dx * dx + dy * dy
        velocity == IF dt > 0 THEN [d2 |-> d2, dt |-> dt] ELSE [d2 |-> 0, dt |-> 1]
    IN  IF dt < MouseThrottle THEN a
        ELSE [ a EXCEPT
                 !.mousePositions  = PushBounded(@, [x |-> x, y |-> y, t |-> Now]),
                 !.mouseVelocities = Append(@, velocity),
                 !.microMovements  = IF d2 > 0 /\ d2 < 3 * 3 THEN @ + 1 ELSE @,
                 !.hesitations     = IF dt > 200 /\ d2 > 5 * 5 THEN @ + 1 ELSE @,
                 !.lastMouseTime   = Now,
                 !.lastMousePos    = [x |-> x, y |-> y] ]

\* trackMouse counting a displacement of exactly 3 as a micro-movement and
\* of exactly 5 as enough for a hesitation
TrackMouseInclusive(a, x, y) ==
    LET dt   == Now - a.lastMouseTime
        dx   == x - a.lastMousePos.x
        dy   == y - a.lastMousePos.y
        d2   == dx * dx + dy * dy
        velocity == IF dt > 0 THEN [d2 |-> d2, dt |-> dt] ELSE [d2 |-> 0, dt |-> 1]
    IN  IF dt < MouseThrottle THEN a
        ELSE [ a EXCEPT
                 !.mousePositions  = PushBounded(@, [x |-> x, y |-> y, t |-> Now]),
                 !.mouseVelocities = PushBounded(@, velocity),
                 !.microMovements  = IF d2 > 0 /\ d2 <= 3 * 3 THEN @ + 1 ELSE @,
                 !.hesitations     = IF dt > 200 /\ d2 >= 5 * 5 THEN @ + 1 ELSE @,
                 !.lastMouseTime   = Now,
                 !.lastMousePos    = [x |-> x, y |-> y] ]

\* trackMouse taking an evicted sample's micro-movement off the counter
TrackMouseForgetEvicted(a, x, y) ==
    LET dt   == Now - a.lastMouseTime
        dx   == x - a.lastMousePos.x
        dy   == y - a.lastMousePos.y
        d2   == dx * dx + dy * dy
        velocity == IF dt > 0 THEN [d2 |-> d2, dt |-> dt] ELSE [d2 |-> 0, dt |-> 1]
        full == Len(a.mousePositions) = WindowSize
        gone == IF full /\ a.mouseVelocities[1].d2 > 0 /\ a.mouseVelocities[1].d2 < 3 * 3
                THEN 1 ELSE 0
    IN  IF dt < MouseThrottle THEN a
        ELSE [ a EXCEPT
                 !.mousePositions  = PushBounded(@, [x |-> x, y |-> y, t |-> Now]),
                 !.mouseVelocities = PushBounded(@, velocity),
                 !.microMovements  = (IF d2 > 0 /\ d2 < 3 * 3 THEN @ + 1 ELSE @) - gone,
                 !.hesitations     = IF dt > 200 /\ d2 > 5 * 5 THEN @ + 1 ELSE @,
                 !.lastMouseTime   = Now,
                 !.lastMousePos    = [x |-> x, y |-> y] ]

TrackMouse(a, x, y) ==
    LET dt   == Now - a.lastMouseTime
        dx   == x - a.lastMousePos.x
        dy   == y - a.lastMousePos.y
        d2   == dx * dx + dy * dy          \* dist squared
        velocity == IF dt > 0 THEN [d2 |-> d2, dt |-> dt] ELSE [d2 |-> 0, dt |-> 1]
    IN  IF dt < MouseThrottle THEN a
        ELSE [ a EXCEPT
                 !.mousePositions  = PushBounded(@, [x |-> x, y |-> y, t |-> Now]),
                 !.mouseVelocities = PushBounded(@, velocity),
                 !.microMovements  = IF d2 > 0 /\ d2 < 3 * 3 THEN @ + 1 ELSE @,
                 !.hesitations     = IF dt > 200 /\ d2 > 5 * 5 THEN @ + 1 ELSE @,
                 !.lastMouseTime   = Now,
                 !.lastMousePos    = [x |-> x, y |-> y] ]

TrackClick(a, ts) == [a EXCEPT !.clickTimings = Append(@, ts)]

\* trackTap keeping the latest timestamp only
TrackTapLatestOnly(a, ts) == [a EXCEPT !.tapTimings = << ts >>]

TrackTap(a, ts) == [a EXCEPT !.tapTimings = Append(@, ts)]

\* Math.atan2(dy, dx) in units of pi/4, for a step along a compass direction
Atan2(dy, dx) ==
    CASE dy = 0 /\ dx >= 0          -> 0
      [] dy = 0 /\ dx < 0           -> 4
      [] dx = 0 /\ dy > 0           -> 2
      [] dx = 0 /\ dy < 0           -> -2
      [] dy = dx /\ dx > 0          -> 1
      [] dy = dx /\ dx < 0          -> -3
      [] dy = -dx /\ dx > 0         -> -1
      [] dy = -dx /\ dx < 0         -> 3

\* the sum of the absolute turns between consecutive steps of the path
TurnSum(p) ==
    LET turn == [i \in 3..Len(p) |->
                    Abs(Atan2(p[i].y - p[i-1].y, p[i].x - p[i-1].x)
                        - Atan2(p[i-1].y - p[i-2].y, p[i-1].x - p[i-2].x))]
    IN  SatSum(turn, 3, Len(p))

\* the jitter k * (pi/4) / m as the pair [k, m]; 0 is [0, 1]
ComputePathJitter(a) ==
    IF Len(a.mousePositions) < 10 THEN [k |-> 0, m |-> 1]
    ELSE [k |-> TurnSum(a.mousePositions), m |-> Len(a.mousePositions) - 2]

\* pi lies strictly between 333/106 and 355/113; for the k and m of a window
\* of 150 samples no threshold falls between the two, so 355/113 decides
JitterAbove005(j) == 5 * j.k * 355 > 113 * j.m
JitterBelow15(j) == j.k * 355 < 6 * 113 * j.m
JitterAbove002(j) == 25 * j.k * 355 > 2 * 113 * j.m

Intervals(t) == [i \in 1..(Len(t) - 1) |-> t[i + 1] - t[i]]

\* the sum over the pairs i < j of (iv[i] - iv[j])^2
PairSquares(iv) ==
    LET row == [i \in 1..Len(iv) |->
                   SatSum([j \in 1..Len(iv) |-> (iv[i] - iv[j]) * (iv[i] - iv[j])],
                          i + 1, Len(iv))]
    IN  SatSum(row, 1, Len(iv))

\* The deviation sqrt(sum (b - m)^2 / n) of the n intervals b, kept as the
\* pair [s, n] with s = n * sum (b - m)^2 = sum over pairs i < j of
\* (b_i - b_j)^2, so that deviation = sqrt(s) / n; s saturates; 0 is [0, 1].
ComputeTimingVariance(t) ==
    IF Len(t) < 3 THEN [s |-> 0, n |-> 1]
    ELSE LET iv == Intervals(t)
         IN  [s |-> PairSquares(iv), n |-> Len(iv)]

VarianceAbove(v, c) == v.s > c * c * v.n * v.n
VarianceBelow(v, c) == v.s < c * c * v.n * v.n

\* the sign of velocity a minus velocity b
VelCmp(a, b) ==
    IF a.d2 = 0 \/ b.d2 = 0 THEN Sign(a.d2 - b.d2)
    ELSE IF a.dt = b.dt THEN Sign(a.d2 - b.d2)
    ELSE IF a.dt >= -Epoch THEN -1
    ELSE IF b.dt >= -Epoch THEN 1
    ELSE Sign(a.d2 * b.dt * b.dt - b.d2 * a.dt * a.dt)

\* how many consecutive accelerations differ in sign
SignChanges(v) ==
    LET change == [i \in 3..Len(v) |->
                      IF VelCmp(v[i], v[i-1]) # VelCmp(v[i-1], v[i-2]) THEN 1 ELSE 0]
    IN  SatSum(change, 3, Len(v))

\* the fraction of sign changes among the n-1 accelerations
ComputeVelocityNaturalness(a) ==
    IF Len(a.mouseVelocities) < 5 THEN [n |-> 0, d |-> 1]
    ELSE [n |-> SignChanges(a.mouseVelocities), d |-> Len(a.mouseVelocities) - 1]

ScorePath(jitter) ==
    IF JitterAbove005(jitter) /\ JitterBelow15(jitter) THEN 25
    ELSE IF JitterAbove002(jitter) THEN 15 ELSE 5

\* timing scored like the path and the velocity: a floor of 5 in the last bucket
ScoreTimingFloor(variance) ==
    IF VarianceAbove(variance, 15) /\ VarianceBelow(variance, 300) THEN 25
    ELSE IF VarianceAbove(variance, 5) THEN 15 ELSE 5

ScoreTiming(variance) ==
    IF VarianceAbove(variance, 15) /\ VarianceBelow(variance, 300) THEN 25
    ELSE IF VarianceAbove(variance, 5) THEN 15 ELSE 0

ScoreBio(a) ==
    LET micro == a.microMovements
        len   == Len(a.mousePositions)
    IN  IF len > 0 /\ 50 * micro > len /\ 2 * micro < len THEN 15
        ELSE IF len > 0 /\ 100 * micro > len THEN 8 ELSE 0

ScoreVelocity(vn) ==
    IF 20 * vn.n > 3 * vn.d THEN 15 ELSE IF 20 * vn.n > vn.d THEN 8 ELSE 2

ScoreTask(accuracy) == Round(FracMul(accuracy, [n |-> 20, d |-> 1]))

\* the threshold taken strictly
IsHumanAbove(total) == total > HumanThreshold

IsHuman(total) == total >= HumanThreshold

\* the confidence without its cap
ConfidenceUncapped(total) == Round([n |-> 11 * total, d |-> 10])

Confidence(total) == Min(99, Round([n |-> 11 * total, d |-> 10]))

Analyze(a, m, accuracy) ==
    LET jitter   == ComputePathJitter(a)
        timings  == IF m = "rhythm" THEN a.tapTimings ELSE a.clickTimings
        variance == ComputeTimingVariance(timings)
        vn       == ComputeVelocityNaturalness(a)
        s == [ pathNaturalness |-> ScorePath(jitter),
               timingHumanness |-> ScoreTiming(variance),
               bioSignal       |-> ScoreBio(a),
               velocityProfile |-> ScoreVelocity(vn),
               taskAccuracy    |-> ScoreTask(accuracy) ]
        total == s.pathNaturalness + s.timingHumanness + s.bioSignal
                 + s.velocityProfile + s.taskAccuracy
    IN  [ scores     |-> s,
          total      |-> total,
          isHuman    |-> IsHuman(total),
          confidence |-> Confidence(total),
          totalTime  |-> Now - a.startTime,
          details    |-> [ mouseEvents    |-> Len(a.mousePositions),
                           microMovements |-> a.microMovements,
                           hesitations    |-> a.hesitations ] ]

-----------------------------------------------------------------------------
(* RhythmCaptcha: the program state as one record, the handlers as functions *)
(* from state to state.  beatIndex and hoverCheck (and the beat playback   *)
(* callbacks that only set beatIndex and play a tone) are view-only state  *)
(* no handler reads; they are left out.                                    *)

NoResult == << >>

Cur ==
    [ phase |-> phase, mode |-> mode, result |-> result,
      currentPattern |-> currentPattern, userTaps |-> userTaps,
      activeCircle |-> activeCircle, circleResults |-> circleResults,
      circlePhase |-> circlePhase, clickedThisRound |-> clickedThisRound,
      checking |-> checking, hasReported |-> hasReported,
      analyzer |-> analyzer, audioCtx |-> audioCtx,
      patternStart |-> patternStart, circleTimer |-> circleTimer,
      lastMouseTrack |-> lastMouseTrack, timers |-> timers,
      session |-> session, calls |-> calls, user |-> user ]

Install(s) ==
    /\ phase' = s.phase /\ mode' = s.mode /\ result' = s.result
    /\ currentPattern' = s.currentPattern /\ userTaps' = s.userTaps
    /\ activeCircle' = s.activeCircle /\ circleResults' = s.circleResults
    /\ circlePhase' = s.circlePhase /\ clickedThisRound' = s.clickedThisRound
    /\ checking' = s.checking /\ hasReported' = s.hasReported
    /\ analyzer' = s.analyzer /\ audioCtx' = s.audioCtx
    /\ patternStart' = s.patternStart /\ circleTimer' = s.circleTimer
    /\ lastMouseTrack' = s.lastMouseTrack /\ timers' = s.timers
    /\ session' = s.session /\ calls' = s.calls /\ user' = s.user

\* what the session has done so far: the verdicts handed to onResult, the
\* completions reported to showResult, the analyses run, the pointer samples
\* trackMouse accepted, the ring indices spawnCircle put on screen
NoCalls == [onResult |-> << >>, showResult |-> << >>, analyze |-> << >>,
            accepted |-> << >>, spawned |-> << >>]

\* the user: pointer events sent and pointer position, replays asked for
NewUser == [moves |-> 0, x |-> 0, y |-> 0, replays |-> 0]

Mounted ==
    [ phase |-> "idle", mode |-> "none", result |-> NoResult,
      currentPattern |-> 0, userTaps |-> << >>,
      activeCircle |-> << >>, circleResults |-> << >>,
      circlePhase |-> 0, clickedThisRound |-> FALSE,
      checking |-> FALSE, hasReported |-> FALSE,
      analyzer |-> NewAnalyzer, audioCtx |-> FALSE,
      patternStart |-> << >>, circleTimer |-> << >>,
      lastMouseTrack |-> Epoch, timers |-> << >>,
      session |-> 0, calls |-> NoCalls,
      user |-> NewUser ]

(* The event loop *)

Timer(kind, left) ==
    [ id |-> 0, kind |-> kind, left |-> left, i |-> 0, m |-> "none",
      acc |-> [n |-> 0, d |-> 1], taps |-> << >>, pat |-> 0, gen |-> 0 ]

UsedIds(s) ==
    {s.timers[k].id : k \in 1..Len(s.timers)} \cup {s.circleTimer[k] : k \in 1..Len(s.circleTimer)}

\* the id setTimeout returns: one no pending timer and no ref holds
FreshId(s) == CHOOSE i \in 1..(Len(s.timers) + 2) :
                  /\ i \notin UsedIds(s)
                  /\ \A j \in 1..(i - 1) : j \in UsedIds(s)

SetTimeout(s, t) ==
    [s EXCEPT !.timers = Append(@, [t EXCEPT !.id = FreshId(s), !.gen = s.session])]

ClearTimeout(s, id) ==
    [s EXCEPT !.timers = SelectSeq(@, LAMBDA t : t.id # id)]

\* The program state d ms later.  patternStartRef is read by handleRhythmTap
\* alone, in phase "play", and every entry into "play" writes it: outside
\* "play" what it holds is never read again and is kept as Epoch.
Elapse(s, d) ==
    [ s EXCEPT
        !.analyzer       = ShiftAnalyzer(@, d),
        !.patternStart   = [k \in 1..Len(@) |->
                               IF s.phase = "play" THEN ShiftT(@[k], d) ELSE Epoch],
        !.activeCircle   = [k \in 1..Len(@) |->
                               [@[k] EXCEPT !.startTime = ShiftT(@, d), !.id = ShiftT(@, d)]],
        !.lastMouseTrack = ShiftRef(@, d, TrackThrottle),
        !.timers         = [k \in 1..Len(@) |-> [@[k] EXCEPT !.left = @ - d]] ]

\* a user event d ms from now is handled before every timer due later
CanAct(s, d) == d >= 0 /\ \A k \in 1..Len(s.timers) : d < s.timers[k].left

\* the timer the event loop runs next: the earliest due, the first set among equals
NextTimer(s) ==
    CHOOSE k \in 1..Len(s.timers) :
        /\ \A j \in 1..Len(s.timers) : s.timers[k].left <= s.timers[j].left
        /\ \A j \in 1..(k - 1) : s.timers[j].left > s.timers[k].left

RemoveAt(q, k) == SubSeq(q, 1, k - 1) \o SubSeq(q, k + 1, Len(q))

(* showResult and its timer *)

\* showResult handing over to the checking callback without the delay
ShowResultNoDelay(s, m, acc) ==
    SetTimeout([s EXCEPT !.checking = TRUE,
                         !.phase = "checking",
                         !.calls.showResult = Append(@, [m |-> m, acc |-> acc])],
               [Timer("check", 0) EXCEPT !.m = m, !.acc = acc])

ShowResult(s, m, acc) ==
    SetTimeout([s EXCEPT !.checking = TRUE,
                         !.phase = "checking",
                         !.calls.showResult = Append(@, [m |-> m, acc |-> acc])],
               [Timer("check", CheckingDelay) EXCEPT !.m = m, !.acc = acc])

\* analyze(m, acc) on the collector the ref holds now, on behalf of a
\* continuation scheduled in session gen
\* analyze emptying the timings it scored
AnalysedConsuming(s, m, acc, gen) ==
    LET analysis == Analyze(s.analyzer, m, acc)
        timings  == IF m = "rhythm" THEN s.analyzer.tapTimings ELSE s.analyzer.clickTimings
    IN  [s EXCEPT !.calls.analyze = Append(@,
                      [ gen |-> gen, m |-> m, acc |-> acc,
                        positions |-> Len(s.analyzer.mousePositions),
                        velocities |-> Len(s.analyzer.mouseVelocities),
                        timings |-> Len(timings),
                        out |-> analysis ]),
                  !.analyzer.tapTimings = << >>,
                  !.analyzer.clickTimings = << >>]

Analysed(s, m, acc, gen) ==
    LET analysis == Analyze(s.analyzer, m, acc)
        timings  == IF m = "rhythm" THEN s.analyzer.tapTimings ELSE s.analyzer.clickTimings
    IN  [s EXCEPT !.calls.analyze = Append(@,
                      [ gen |-> gen, m |-> m, acc |-> acc,
                        positions |-> Len(s.analyzer.mousePositions),
                        velocities |-> Len(s.analyzer.mouseVelocities),
                        timings |-> Len(timings),
                        out |-> analysis ])]

CheckingDone(s, t) ==
    LET s1 == Analysed(s, t.m, t.acc, t.gen)
    IN  [s1 EXCEPT !.result = << s1.calls.analyze[Len(s1.calls.analyze)].out >>,
                   !.checking = FALSE,
                   !.phase = "result"]

(* The effects, run after every render *)

\* the reporting effect without the hasReported guard
ReportEveryRender(s) ==
    IF s.phase = "result" /\ s.result # NoResult
    THEN [s EXCEPT !.calls.onResult = Append(@, s.result[1].isHuman),
                   !.hasReported = TRUE]
    ELSE s

ReportEffect(s) ==
    IF s.phase = "result" /\ s.result # NoResult /\ ~ s.hasReported
    THEN [s EXCEPT !.calls.onResult = Append(@, s.result[1].isHuman),
                   !.hasReported = TRUE]
    ELSE s

RECURSIVE Hits(_)
Hits(r) == IF r = << >> THEN 0 ELSE (IF Head(r).hit THEN 1 ELSE 0) + Hits(Tail(r))

RECURSIVE TimingSum(_)
TimingSum(r) ==
    IF r = << >> THEN [n |-> 0, d |-> 1] ELSE FracAdd(Head(r).timing, TimingSum(Tail(r)))

\* the precision accuracy with the mean timing counted in full
PrecisionAccuracyFullTiming(r) ==
    LET hits == Hits(r)
        avg  == FracMul(TimingSum(r), [n |-> 1, d |-> TOTAL_CIRCLES])
    IN  FracAdd(FracMul(Frac(hits, TOTAL_CIRCLES), [n |-> 1, d |-> 2]), avg)

PrecisionAccuracy(r) ==
    LET hits == Hits(r)
        avg  == FracMul(TimingSum(r), [n |-> 1, d |-> TOTAL_CIRCLES])
    IN  FracAdd(FracMul(Frac(hits, TOTAL_CIRCLES), [n |-> 1, d |-> 2]),
                FracMul(avg, [n |-> 1, d |-> 2]))

CompletionEffect(s) ==
    IF Len(s.circleResults) = TOTAL_CIRCLES /\ s.phase = "target"
    THEN ShowResult(s, "precision", PrecisionAccuracy(s.circleResults))
    ELSE s

\* Both effects in declaration order.  The completion effect leaves phase
\* "checking", where a further run of either effect does nothing.
Render(s) == CompletionEffect(ReportEffect(s))

(* The rhythm branch *)

Beats(p) == RHYTHM_PATTERNS[p]

\* startListen also discarding the taps the collector holds
StartListenFreshTaps(s, p) ==
    SetTimeout([s EXCEPT !.currentPattern = p,
                         !.phase = "listen",
                         !.audioCtx = TRUE,
                         !.analyzer.tapTimings = << >>],
               Timer("play", Beats(p)[Len(Beats(p))] + ListenGrace))

StartListen(s, p) ==
    SetTimeout([s EXCEPT !.currentPattern = p,
                         !.phase = "listen",
                         !.audioCtx = TRUE],
               Timer("play", Beats(p)[Len(Beats(p))] + ListenGrace))

ListenDone(s) ==
    [s EXCEPT !.phase = "play", !.userTaps = << >>, !.patternStart = << Now >>]

\* handleRhythmTap recording the tap in the collector before its guard
HandleRhythmTapTrackFirst(s) ==
    LET s0 == [s EXCEPT !.analyzer = TrackClick(TrackTap(@, Now), Now)]
    IN  IF s.phase # "play" \/ s.patternStart = << >> THEN s0
        ELSE LET tap == Now - s.patternStart[1]
                 n   == Append(s.userTaps, tap)
                 s1  == [s0 EXCEPT !.audioCtx = TRUE,
                                   !.userTaps = n]
             IN  IF s.currentPattern # 0 /\ Len(n) >= Len(Beats(s.currentPattern))
                 THEN SetTimeout(s1, [Timer("settle", SettleDelay) EXCEPT
                                         !.taps = n, !.pat = s.currentPattern])
                 ELSE s1

HandleRhythmTap(s) ==
    IF s.phase # "play" \/ s.patternStart = << >> THEN s
    ELSE LET tap == Now - s.patternStart[1]
             n   == Append(s.userTaps, tap)
             s1  == [s EXCEPT !.audioCtx = TRUE,
                              !.analyzer = TrackClick(TrackTap(@, Now), Now),
                              !.userTaps = n]
         IN  IF s.currentPattern # 0 /\ Len(n) >= Len(Beats(s.currentPattern))
             THEN SetTimeout(s1, [Timer("settle", SettleDelay) EXCEPT
                                     !.taps = n, !.pat = s.currentPattern])
             ELSE s1

RECURSIVE NearestBeat(_, _)
NearestBeat(t, beats) ==
    IF Len(beats) = 1 THEN Abs(t - beats[1])
    ELSE Min(Abs(t - Head(beats)), NearestBeat(t, Tail(beats)))

\* the matching with a tap at the tolerance itself counted as matched
RECURSIVE MatchedWithin(_, _)
MatchedWithin(taps, beats) ==
    IF taps = << >> THEN [matched |-> 0, totalErr |-> 0]
    ELSE LET rest == MatchedWithin(Tail(taps), beats)
             min  == NearestBeat(Head(taps), beats)
         IN  IF min <= Tolerance
             THEN [matched |-> rest.matched + 1, totalErr |-> rest.totalErr + min]
             ELSE rest

RECURSIVE Matched(_, _)
Matched(taps, beats) ==
    IF taps = << >> THEN [matched |-> 0, totalErr |-> 0]
    ELSE LET rest == Matched(Tail(taps), beats)
             min  == NearestBeat(Head(taps), beats)
         IN  IF min < Tolerance
             THEN [matched |-> rest.matched + 1, totalErr |-> rest.totalErr + min]
             ELSE rest

\* the accuracy with the two parts weighted evenly
RhythmAccuracyEvenWeights(beats, taps) ==
    LET r   == Matched(taps, beats)
        acc == Frac(r.matched, Len(beats))
        ts  == IF r.matched > 0
               THEN Frac(Max(0, r.matched * Tolerance - r.totalErr), r.matched * Tolerance)
               ELSE [n |-> 0, d |-> 1]
    IN  FracAdd(FracMul(acc, [n |-> 1, d |-> 2]), FracMul(ts, [n |-> 1, d |-> 2]))

RhythmAccuracy(beats, taps) ==
    LET r   == Matched(taps, beats)
        acc == Frac(r.matched, Len(beats))
        ts  == IF r.matched > 0
               THEN Frac(Max(0, r.matched * Tolerance - r.totalErr), r.matched * Tolerance)
               ELSE [n |-> 0, d |-> 1]
    IN  FracAdd(FracMul(acc, [n |-> 3, d |-> 5]), FracMul(ts, [n |-> 2, d |-> 5]))

\* evaluateRhythm reading the pattern of the current state
EvaluateRhythmCurrentPattern(s, taps, pat) ==
    IF s.currentPattern = 0 THEN s
    ELSE ShowResult(s, "rhythm", RhythmAccuracy(Beats(s.currentPattern), taps))

EvaluateRhythm(s, taps, pat) ==
    IF pat = 0 THEN s
    ELSE ShowResult(s, "rhythm", RhythmAccuracy(Beats(pat), taps))

(* The precision branch *)

\* spawnCircle giving every ring the duration of the first
SpawnCircleSameDuration(s, i) ==
    IF i >= TOTAL_CIRCLES THEN s
    ELSE LET pos      == CIRCLE_POSITIONS[i + 1]
             duration == 2200
             size     == 90 - i * 6
             s1 == [s EXCEPT !.activeCircle = << [ id |-> Now, x |-> pos.x, y |-> pos.y,
                                                    startTime |-> Now,
                                                    duration |-> duration,
                                                    size |-> size ] >>,
                             !.clickedThisRound = FALSE,
                             !.circlePhase = i,
                             !.calls.spawned = Append(@, i)]
             timeoutId == FreshId(s1)
         IN  [SetTimeout(s1, [Timer("expire", duration) EXCEPT !.i = i])
                 EXCEPT !.circleTimer = << timeoutId >>]

SpawnCircle(s, i) ==
    IF i >= TOTAL_CIRCLES THEN s
    ELSE LET pos      == CIRCLE_POSITIONS[i + 1]
             duration == 2200 - i * 150
             size     == 90 - i * 6
             s1 == [s EXCEPT !.activeCircle = << [ id |-> Now, x |-> pos.x, y |-> pos.y,
                                                    startTime |-> Now,
                                                    duration |-> duration,
                                                    size |-> size ] >>,
                             !.clickedThisRound = FALSE,
                             !.circlePhase = i,
                             !.calls.spawned = Append(@, i)]
             timeoutId == FreshId(s1)
         IN  [SetTimeout(s1, [Timer("expire", duration) EXCEPT !.i = i])
                 EXCEPT !.circleTimer = << timeoutId >>]

StartPrecision(s) ==
    SpawnCircle([s EXCEPT !.mode = "precision",
                          !.phase = "target",
                          !.circleResults = << >>,
                          !.circlePhase = 0,
                          !.clickedThisRound = FALSE], 0)

\* the expiry callback spawning the ring that expired once more
RingExpiredSameRing(s, i) ==
    SetTimeout([s EXCEPT !.circleResults = Append(@, [hit |-> FALSE, timing |-> [n |-> 1, d |-> 1]]),
                         !.activeCircle = << >>],
               [Timer("spawn", ExpiryPause) EXCEPT !.i = i])

\* the expiry callback recording a timing of 0 for the ring that expired
RingExpiredNoTiming(s, i) ==
    SetTimeout([s EXCEPT !.circleResults = Append(@, [hit |-> FALSE, timing |-> [n |-> 0, d |-> 1]]),
                         !.activeCircle = << >>],
               [Timer("spawn", ExpiryPause) EXCEPT !.i = i + 1])

RingExpired(s, i) ==
    SetTimeout([s EXCEPT !.circleResults = Append(@, [hit |-> FALSE, timing |-> [n |-> 1, d |-> 1]]),
                         !.activeCircle = << >>],
               [Timer("spawn", ExpiryPause) EXCEPT !.i = i + 1])

\* 1 - min(1, |progress - 0.7| / 0.4) for progress = elapsed / duration, as
\* an exact fraction.  The doubles of the code differ from it in the last
\* digits, which matters to the hit test at progress 0.42 alone (0.3 exactly,
\* 0.30000000000000016 as a double).
ClickAccuracy(elapsed, duration) ==
    LET off == Frac(Abs(10 * elapsed - 7 * duration), 4 * duration)
    IN  IF FracLess([n |-> 1, d |-> 1], off) THEN [n |-> 0, d |-> 1]
        ELSE Frac(off.d - off.n, off.d)

\* the hit test with the threshold itself counted as a hit
IsHitAtThreshold(accuracy) == ~ FracLess(accuracy, [n |-> 3, d |-> 10])

IsHit(accuracy) == FracLess([n |-> 3, d |-> 10], accuracy)

\* handleCircleClick leaving the ring's expiry timer pending
HandleCircleClickNoCancel(s) ==
    IF s.activeCircle = << >> \/ s.phase # "target" \/ s.clickedThisRound THEN s
    ELSE LET accuracy == ClickAccuracy(Now - s.activeCircle[1].startTime,
                                       s.activeCircle[1].duration)
             s2 == [s EXCEPT !.clickedThisRound = TRUE,
                             !.audioCtx = TRUE,
                             !.analyzer = TrackClick(@, Now),
                             !.circleResults = Append(@, [hit |-> IsHit(accuracy),
                                                          timing |-> accuracy]),
                             !.activeCircle = << >>]
         IN  SetTimeout(s2, [Timer("spawn", ClickPause) EXCEPT !.i = s.circlePhase + 1])

HandleCircleClick(s) ==
    IF s.activeCircle = << >> \/ s.phase # "target" \/ s.clickedThisRound THEN s
    ELSE LET s1 == IF s.circleTimer # << >>
                   THEN ClearTimeout(s, s.circleTimer[1]) ELSE s
             accuracy == ClickAccuracy(Now - s.activeCircle[1].startTime,
                                       s.activeCircle[1].duration)
             s2 == [s1 EXCEPT !.clickedThisRound = TRUE,
                              !.audioCtx = TRUE,
                              !.analyzer = TrackClick(@, Now),
                              !.circleResults = Append(@, [hit |-> IsHit(accuracy),
                                                           timing |-> accuracy]),
                              !.activeCircle = << >>]
         IN  SetTimeout(s2, [Timer("spawn", ClickPause) EXCEPT !.i = s.circlePhase + 1])

(* Reset and pointer tracking *)

\* reset() leaving hasReported as it is
ResetKeepsReported(s) ==
    [s EXCEPT !.analyzer = NewAnalyzer,
              !.phase = "idle",
              !.mode = "none",
              !.result = NoResult,
              !.currentPattern = 0,
              !.userTaps = << >>,
              !.activeCircle = << >>,
              !.circleResults = << >>,
              !.circlePhase = 0,
              !.clickedThisRound = FALSE,
              !.checking = FALSE,
              !.session = @ + 1,
              !.calls = NoCalls]

Reset(s) ==
    [s EXCEPT !.analyzer = NewAnalyzer,
              !.phase = "idle",
              !.mode = "none",
              !.result = NoResult,
              !.currentPattern = 0,
              !.userTaps = << >>,
              !.activeCircle = << >>,
              !.circleResults = << >>,
              !.circlePhase = 0,
              !.clickedThisRound = FALSE,
              !.checking = FALSE,
              !.hasReported = FALSE,
              \* a new session of the embedding flow begins
              !.session = @ + 1,
              !.calls = NoCalls]

\* a call of trackMouse on the collector the ref holds
Track(s, x, y) ==
    LET a == TrackMouse(s.analyzer, x, y)
    IN  [s EXCEPT !.analyzer = a,
                  !.calls.accepted =
                      IF Accepts(s.analyzer)
                      THEN Append(@, [x |-> x, y |-> y,
                                      v |-> a.mouseVelocities[Len(a.mouseVelocities)]])
                      ELSE @]

HandleMouseMove(s, x, y) ==
    IF Now - s.lastMouseTrack < TrackThrottle THEN s
    ELSE Track([s EXCEPT !.lastMouseTrack = Now], x, y)

-----------------------------------------------------------------------------
(* The user and the pointer *)

\* reaction time of a click on a button (ms)
Think == {100}
\* how late the user taps a pattern back (ms, the same for every beat)
TapLags == {0, 260}
\* a tap too many follows the last one after this long (ms)
ExtraTapGaps == {150}
\* where in a ring's shrink the user clicks (percent of its duration)
ClickPercents == {40, 70}
\* the accuracies handed to analyze on a collector of its own
Accuracies == {Frac(k, 20) : k \in 0..20}
\* gaps between the taps or clicks fed to a collector on its own (ms)
Gaps == {500, 520, 560}
\* the gap before the first tap or click fed to a collector on its own (ms)
FirstGaps == {500}
\* the pointer scripts analyze is run on, and those that overflow the window
AnalyzeScripts == {"human", "line", "tremor", "pause"}
TrackScripts == {"sweep", "pause", "human", "jitter", "edge"}

\* the phases in which the user moves the pointer over the component
PointerPhases == {"select"}

\* the outcomes of the random choice of a pattern explored (indices)
Patterns == {1, 2}

\* the n-th pointer event of a script: the step from the previous position
\* and the time since the previous event
ScriptStep(name, n) ==
    CASE name = "human" ->
            ( CASE n % 4 = 1 -> [dx |-> 1, dy |-> 0, dt |-> 40]
                [] n % 4 = 2 -> [dx |-> 3, dy |-> 3, dt |-> 40]
                [] n % 4 = 3 -> [dx |-> 4, dy |-> 0, dt |-> 50]
                [] n % 4 = 0 -> [dx |-> 3, dy |-> -3, dt |-> 40] )
      [] name = "line"   -> [dx |-> 4, dy |-> 0, dt |-> 40]
      [] name = "tremor" -> IF n % 2 = 1 THEN [dx |-> 1, dy |-> 0, dt |-> 40]
                                         ELSE [dx |-> 0, dy |-> 1, dt |-> 40]
      [] name = "pause"  -> [dx |-> 6, dy |-> 0, dt |-> 250]
      [] name = "sweep"  -> [dx |-> 1, dy |-> 0, dt |-> IF n % 8 = 0 THEN 20 ELSE 40]
      [] name = "jitter" ->
            ( CASE n % 4 = 1 -> [dx |-> 2, dy |-> 0, dt |-> 40]
                [] n % 4 = 2 -> [dx |-> 2, dy |-> 0, dt |-> 29]
                [] n % 4 = 3 -> [dx |-> 0, dy |-> 2, dt |-> 30]
                [] n % 4 = 0 -> [dx |-> 0, dy |-> -2, dt |-> 30] )
      \* displacements and intervals at the thresholds of the two counters
      [] name = "edge" ->
            ( CASE n % 6 = 1 -> [dx |-> 3, dy |-> 0, dt |-> 250]
                [] n % 6 = 2 -> [dx |-> 3, dy |-> 4, dt |-> 300]
                [] n % 6 = 3 -> [dx |-> 6, dy |-> 0, dt |-> 200]
                [] n % 6 = 4 -> [dx |-> 6, dy |-> 0, dt |-> 201]
                [] n % 6 = 5 -> [dx |-> 0, dy |-> 0, dt |-> 250]
                [] n % 6 = 0 -> [dx |-> 2, dy |-> 2, dt |-> 40] )

NextPointer(s, name) ==
    LET step == ScriptStep(name, s.user.moves + 1)
    IN  [s.user EXCEPT !.moves = @ + 1, !.x = @ + step.dx, !.y = @ + step.dy]

-----------------------------------------------------------------------------
(* The component: one action per user event and per timer callback, each    *)
(* followed by the render it causes                                         *)

\* the state after the component is mounted
Starts(s) ==
    /\ phase = s.phase /\ mode = s.mode /\ result = s.result
    /\ currentPattern = s.currentPattern /\ userTaps = s.userTaps
    /\ activeCircle = s.activeCircle /\ circleResults = s.circleResults
    /\ circlePhase = s.circlePhase /\ clickedThisRound = s.clickedThisRound
    /\ checking = s.checking /\ hasReported = s.hasReported
    /\ analyzer = s.analyzer /\ audioCtx = s.audioCtx
    /\ patternStart = s.patternStart /\ circleTimer = s.circleTimer
    /\ lastMouseTrack = s.lastMouseTrack /\ timers = s.timers
    /\ session = s.session /\ calls = s.calls /\ user = s.user

\* no task evaluation is run on its own
NoProbe == << >>

\* the form as reset() leaves it, closed; reported is the last verdict the
\* component handed to onResult since the form was opened
ClosedForm ==
    [ open |-> FALSE, step |-> 1, located |-> FALSE, addressValid |-> FALSE,
      validating |-> FALSE, benefit |-> FALSE, captchaPassed |-> FALSE,
      verifying |-> FALSE, verified |-> FALSE, reported |-> << >> ]

\* the form showing the component: open at step 3, nothing submitted
CaptchaStep ==
    [ClosedForm EXCEPT !.open = TRUE, !.step = 3, !.located = TRUE,
                       !.addressValid = TRUE, !.benefit = TRUE]

Init ==
    /\ Starts(Mounted)
    /\ script = "human"
    /\ probe = NoProbe
    /\ form = CaptchaStep

\* the form after the effects of a render: onResult is the form's
\* (isHuman) => setCaptchaPassed(isHuman)
FormSees(f, s) ==
    IF ReportEffect(s).calls.onResult # s.calls.onResult
    THEN [f EXCEPT !.captchaPassed = s.result[1].isHuman,
                   !.reported = << s.result[1].isHuman >>]
    ELSE f

Rendered(s) ==
    /\ Install(Render(s))
    /\ form' = FormSees(form, s)
    /\ UNCHANGED << script, probe >>

\* the checkbox of the idle view
OptIn ==
    /\ phase = "idle"
    /\ \E d \in Think :
          /\ CanAct(Cur, d)
          /\ Rendered([Elapse(Cur, d) EXCEPT !.phase = "select"])

ChooseRhythm ==
    /\ phase = "select"
    /\ \E d \in Think, p \in Patterns :
          /\ CanAct(Cur, d)
          /\ Rendered(StartListen([Elapse(Cur, d) EXCEPT !.mode = "rhythm"], p))

ChoosePrecision ==
    /\ phase = "select"
    /\ \E d \in Think :
          /\ CanAct(Cur, d)
          /\ Rendered(StartPrecision([Elapse(Cur, d) EXCEPT !.mode = "precision"]))

\* when the user taps next: on the next beat plus the lag of the first tap,
\* or, the pattern tapped out, once more
TapDelays(s) ==
    IF s.patternStart = << >> \/ s.currentPattern = 0 THEN {}
    ELSE LET elapsed == Now - s.patternStart[1]
             beats   == Beats(s.currentPattern)
             k       == Len(s.userTaps) + 1
         IN  IF k = 1 THEN {lag - elapsed : lag \in TapLags}
             ELSE IF k <= Len(beats) THEN {beats[k] + s.userTaps[1] - elapsed}
             ELSE {s.userTaps[k - 1] + g - elapsed : g \in ExtraTapGaps}

Tap ==
    /\ mode = "rhythm" /\ phase = "play"
    /\ Len(analyzer.tapTimings) < MaxTaps
    /\ \E d \in TapDelays(Cur) :
          /\ CanAct(Cur, d)
          /\ Rendered(HandleRhythmTap(Elapse(Cur, d)))

Replay ==
    /\ mode = "rhythm" /\ phase = "play"
    /\ user.replays < MaxReplays
    /\ \E d \in Think, p \in Patterns :
          /\ CanAct(Cur, d)
          /\ Rendered(StartListen([Elapse(Cur, d) EXCEPT !.user.replays = @ + 1], p))

ClickRing ==
    /\ mode = "precision" /\ phase = "target"
    /\ activeCircle # << >>
    /\ \E pct \in ClickPercents :
          LET d == (activeCircle[1].duration * pct) \div 100
                   - (Now - activeCircle[1].startTime)
          IN  /\ CanAct(Cur, d)
              /\ Rendered(HandleCircleClick(Elapse(Cur, d)))

\* the "Try again" button of a failed result
Retry ==
    /\ phase = "result" /\ result # NoResult /\ ~ result[1].isHuman
    /\ session < MaxRetries
    /\ \E d \in Think :
          /\ CanAct(Cur, d)
          /\ Rendered([Reset(Elapse(Cur, d)) EXCEPT !.user = [NewUser EXCEPT !.replays = user.replays]])

PointerEvent(limit) ==
    /\ user.moves < limit
    /\ LET d == ScriptStep(script, user.moves + 1).dt
           q == NextPointer(Cur, script)
       IN  /\ CanAct(Cur, d)
           /\ Rendered(HandleMouseMove([Elapse(Cur, d) EXCEPT !.user = q], q.x, q.y))

\* the user moves the pointer while choosing a challenge
MouseMove == phase \in PointerPhases /\ PointerEvent(MaxMouse)

\* the parent renders again and hands over a new onResult function
Rerender == Rendered(Cur)

Fires(kind) == timers # << >> /\ timers[NextTimer(Cur)].kind = kind

\* the state in which the callback of the next timer runs
AtTimer ==
    LET k == NextTimer(Cur)
    IN  [Elapse(Cur, timers[k].left) EXCEPT !.timers = RemoveAt(@, k)]

TheTimer == timers[NextTimer(Cur)]

ListenTimer == Fires("play") /\ Rendered(ListenDone(AtTimer))

SettleTimer ==
    Fires("settle") /\ Rendered(EvaluateRhythm(AtTimer, TheTimer.taps, TheTimer.pat))

ExpireTimer == Fires("expire") /\ Rendered(RingExpired(AtTimer, TheTimer.i))

SpawnTimer == Fires("spawn") /\ Rendered(SpawnCircle(AtTimer, TheTimer.i))

CheckTimer == Fires("check") /\ Rendered(CheckingDone(AtTimer, TheTimer))

Next ==
    \/ OptIn \/ ChooseRhythm \/ ChoosePrecision
    \/ Tap \/ Replay \/ ClickRing \/ Retry \/ MouseMove \/ Rerender
    \/ ListenTimer \/ SettleTimer \/ ExpireTimer \/ SpawnTimer \/ CheckTimer

Spec == Init /\ [][Next]_vars

\* the event loop runs the callback of a timer that is due
TimerStep == ListenTimer \/ SettleTimer \/ ExpireTimer \/ SpawnTimer \/ CheckTimer

\* The component under an event loop that does not stop: weak fairness of
\* TimerStep, written out.  A timer step is possible exactly when a timer is
\* pending, so either no timer is pending infinitely often or timer steps
\* are taken infinitely often.
SpecFair ==
    /\ Init /\ [][Next]_vars
    /\ ([]<>(timers = << >>) \/ []<><<TimerStep>>_vars)

-----------------------------------------------------------------------------
(* The component under a user who sweeps the pointer over it while choosing *)
(* the challenge, then completes one attempt                                *)

Sweep == phase \in PointerPhases /\ PointerEvent(MaxSamples)

NextSweep ==
    \/ OptIn \/ Sweep \/ ChooseRhythm \/ ChoosePrecision \/ Tap \/ ClickRing
    \/ ListenTimer \/ SettleTimer \/ ExpireTimer \/ SpawnTimer \/ CheckTimer

SpecSweep == Init /\ [][NextSweep]_vars

-----------------------------------------------------------------------------
(* The component under a user whose pointer is still over it while the      *)
(* attempt is being checked: onMouseMove sits on the outer container, in    *)
(* every phase                                                              *)

LateMove == phase = "checking" /\ PointerEvent(MaxMouse)

NextLate ==
    \/ OptIn \/ MouseMove \/ LateMove \/ ChooseRhythm \/ ChoosePrecision
    \/ Tap \/ ClickRing
    \/ ListenTimer \/ SettleTimer \/ ExpireTimer \/ SpawnTimer \/ CheckTimer

SpecLate == Init /\ [][NextLate]_vars

\* a user who moves the pointer only then, and who may also replay and
\* retry, under an event loop that does not stop (weak fairness of TimerStep,
\* written out as in SpecFair)
NextChecking ==
    \/ OptIn \/ LateMove \/ ChooseRhythm \/ ChoosePrecision
    \/ Tap \/ Replay \/ ClickRing \/ Retry
    \/ ListenTimer \/ SettleTimer \/ ExpireTimer \/ SpawnTimer \/ CheckTimer

SpecChecking ==
    /\ Init /\ [][NextChecking]_vars
    /\ ([]<>(timers = << >>) \/ []<><<TimerStep>>_vars)

-----------------------------------------------------------------------------
(* The rhythm branch under a user who taps every beat late by the same      *)
(* amount and whose last tap bounces: a second tap follows it at once       *)

\* how late the taps are (ms); the bounce follows the last tap 50 ms later
BounceLags == {100, 172}

BounceDelays(s) ==
    IF s.patternStart = << >> \/ s.currentPattern = 0 THEN {}
    ELSE LET elapsed == Now - s.patternStart[1]
             beats   == Beats(s.currentPattern)
             k       == Len(s.userTaps) + 1
         IN  IF k = 1 THEN {lag - elapsed : lag \in BounceLags}
             ELSE IF k <= Len(beats) THEN {beats[k] + s.userTaps[1] - elapsed}
             ELSE {s.userTaps[k - 1] + 50 - elapsed}

BounceTap ==
    /\ mode = "rhythm" /\ phase = "play"
    /\ Len(analyzer.tapTimings) < MaxTaps
    /\ \E d \in BounceDelays(Cur) :
          /\ CanAct(Cur, d)
          /\ Rendered(HandleRhythmTap(Elapse(Cur, d)))

NextBounce ==
    \/ OptIn \/ MouseMove \/ ChooseRhythm \/ BounceTap \/ Retry
    \/ ListenTimer \/ SettleTimer \/ CheckTimer

SpecBounce == Init /\ [][NextBounce]_vars

-----------------------------------------------------------------------------
(* The component with its two task handlers also invoked in the states in  *)
(* which they are to do nothing                                            *)

StrayTap == phase # "play" /\ Rendered(HandleRhythmTap(Cur))

StrayClick ==
    /\ ~ (phase = "target" /\ activeCircle # << >> /\ ~ clickedThisRound)
    /\ Rendered(HandleCircleClick(Cur))

NextStray ==
    \/ OptIn \/ ChooseRhythm \/ ChoosePrecision
    \/ Tap \/ Replay \/ ClickRing \/ Retry \/ StrayTap \/ StrayClick
    \/ ListenTimer \/ SettleTimer \/ ExpireTimer \/ SpawnTimer \/ CheckTimer

SpecStray == Init /\ [][NextStray]_vars

-----------------------------------------------------------------------------
(* The precision branch under a user who keeps clicking: onClick sits on the *)
(* field the rings appear in, so a click also reaches handleCircleClick      *)
(* between two rings                                                         *)

\* how long after the last event the user clicks the empty field (ms)
AgainDelays == {100}

ClickAgain ==
    /\ mode = "precision" /\ phase = "target"
    /\ activeCircle = << >>
    /\ \E d \in AgainDelays :
          /\ CanAct(Cur, d)
          /\ Rendered(HandleCircleClick(Elapse(Cur, d)))

NextRings ==
    \/ OptIn \/ ChoosePrecision \/ ClickRing \/ ClickAgain \/ Retry
    \/ ExpireTimer \/ SpawnTimer \/ CheckTimer

SpecRings == Init /\ [][NextRings]_vars

-----------------------------------------------------------------------------
(* The ContributorForm around the component: the user opens and closes the  *)
(* form, walks its steps, takes the challenge at step 3 and submits         *)

\* how long the address lookup takes (ms), and what it answers
FetchLatency == {300}
FetchAnswers == {"found", "missing"}

\* the form renders the component at step 3 until the user submits
CaptchaShown(f) == f.open /\ f.step = 3 /\ ~ f.verifying /\ ~ f.verified

\* The component under a form going from f0 to f1.  A component the form
\* stops rendering is unmounted: its pending callbacks still run, on an
\* instance React has discarded, where they set no state and run no effect;
\* they are dropped.  A component rendered anew is a new instance.
Shown(s, f0, f1) ==
    IF CaptchaShown(f0) /\ CaptchaShown(f1) THEN s
    ELSE [Mounted EXCEPT !.timers =
             SelectSeq(s.timers, LAMBDA t : t.kind \in {"submit", "fetch"})]

\* the form sets its state to f1 and renders, the component with it
FormRendered(s, f1) ==
    LET s1 == Shown(s, form, f1)
    IN  /\ Install(Render(s1))
        /\ form' = FormSees(f1, s1)
        /\ UNCHANGED << script, probe >>

\* the floating button: reset() and setOpen(true)
OpenForm ==
    /\ ~ form.open
    /\ \E d \in Think :
          /\ CanAct(Cur, d)
          /\ FormRendered(Elapse(Cur, d), [ClosedForm EXCEPT !.open = TRUE])

\* the backdrop, the X button, or Done
CloseForm ==
    /\ form.open
    /\ \E d \in Think :
          /\ CanAct(Cur, d)
          /\ FormRendered(Elapse(Cur, d), [form EXCEPT !.open = FALSE])

TypeAddress ==
    /\ form.open /\ form.step = 1 /\ ~ form.located
    /\ \E d \in Think :
          /\ CanAct(Cur, d)
          /\ FormRendered(Elapse(Cur, d),
                          [form EXCEPT !.located = TRUE, !.addressValid = FALSE])

\* validateAddress up to its fetch
ValidateAddress ==
    /\ form.open /\ form.step = 1 /\ form.located /\ ~ form.validating
    /\ \E d \in Think, l \in FetchLatency, a \in FetchAnswers :
          /\ CanAct(Cur, d)
          /\ FormRendered(SetTimeout(Elapse(Cur, d), [Timer("fetch", l) EXCEPT !.m = a]),
                          [form EXCEPT !.validating = TRUE])

\* validateAddress from the answer of its fetch on
FetchTimer ==
    /\ Fires("fetch")
    /\ FormRendered(AtTimer,
                    IF TheTimer.m = "found"
                    THEN [form EXCEPT !.addressValid = TRUE, !.located = TRUE,
                                      !.step = 2, !.validating = FALSE]
                    ELSE [form EXCEPT !.validating = FALSE])

ChooseBenefit ==
    /\ form.open /\ form.step = 2 /\ ~ form.benefit
    /\ \E d \in Think :
          /\ CanAct(Cur, d)
          /\ FormRendered(Elapse(Cur, d), [form EXCEPT !.benefit = TRUE])

ToCaptcha ==
    /\ form.open /\ form.step = 2 /\ form.benefit
    /\ \E d \in Think :
          /\ CanAct(Cur, d)
          /\ FormRendered(Elapse(Cur, d), [form EXCEPT !.step = 3])

\* the Submit Resource button, disabled while captchaPassed is false
HandleSubmit ==
    /\ CaptchaShown(form) /\ form.captchaPassed
    /\ \E d \in Think :
          /\ CanAct(Cur, d)
          /\ FormRendered(SetTimeout(Elapse(Cur, d), Timer("submit", SubmitDelay)),
                          [form EXCEPT !.verifying = TRUE])

SubmitTimer ==
    /\ Fires("submit")
    /\ FormRendered(AtTimer,
                    [form EXCEPT !.verifying = FALSE, !.verified = TRUE, !.step = 4])

\* the user takes the challenge the form shows
Challenge ==
    /\ CaptchaShown(form)
    /\ \/ OptIn \/ MouseMove \/ ChooseRhythm \/ ChoosePrecision
       \/ Tap \/ ClickRing \/ Retry
       \/ ListenTimer \/ SettleTimer \/ ExpireTimer \/ SpawnTimer \/ CheckTimer

InitForm ==
    /\ Starts(Mounted) /\ script = "human" /\ probe = NoProbe
    /\ form = ClosedForm

NextForm ==
    \/ OpenForm \/ CloseForm \/ TypeAddress \/ ValidateAddress \/ FetchTimer
    \/ ChooseBenefit \/ ToCaptcha \/ HandleSubmit \/ SubmitTimer
    \/ Challenge

SpecForm == InitForm /\ [][NextForm]_vars

-----------------------------------------------------------------------------
(* A BehaviorAnalyzer on its own: pointer events of a script, then taps or  *)
(* clicks, then one call of analyze                                         *)

Feed(limit) ==
    /\ user.moves < limit
    /\ calls.analyze = << >>
    /\ analyzer.tapTimings = << >> /\ analyzer.clickTimings = << >>
    /\ LET d == ScriptStep(script, user.moves + 1).dt
           q == NextPointer(Cur, script)
       IN  Install(Track([Elapse(Cur, d) EXCEPT !.user = q], q.x, q.y))
    /\ UNCHANGED << script, probe, form >>

FeedMouse == Feed(MaxSamples)

NextGaps(t) == IF t = << >> THEN FirstGaps ELSE Gaps

FeedTap ==
    /\ calls.analyze = << >>
    /\ analyzer.clickTimings = << >>
    /\ Len(analyzer.tapTimings) < MaxTimings
    /\ \E g \in NextGaps(analyzer.tapTimings) :
          Install([Elapse(Cur, g) EXCEPT !.analyzer = TrackTap(@, Now)])
    /\ UNCHANGED << script, probe, form >>

FeedClick ==
    /\ calls.analyze = << >>
    /\ analyzer.tapTimings = << >>
    /\ Len(analyzer.clickTimings) < MaxTimings
    /\ \E g \in NextGaps(analyzer.clickTimings) :
          Install([Elapse(Cur, g) EXCEPT !.analyzer = TrackClick(@, Now)])
    /\ UNCHANGED << script, probe, form >>

RunAnalyze ==
    /\ calls.analyze = << >>
    /\ \E m \in {"rhythm", "precision"}, acc \in Accuracies :
          Install(Analysed(Cur, m, acc, session))
    /\ UNCHANGED << script, probe, form >>

\* analyze called once more, later, on the same collector with the same
\* mode and accuracy
RunAgain ==
    /\ Len(calls.analyze) = 1
    /\ \E g \in FirstGaps :
          Install(Analysed(Elapse(Cur, g), calls.analyze[1].m, calls.analyze[1].acc, session))
    /\ UNCHANGED << script, probe, form >>

InitAnalyze ==
    Starts(Mounted) /\ script \in AnalyzeScripts /\ probe = NoProbe /\ form = CaptchaStep

NextAnalyze == FeedMouse \/ FeedTap \/ FeedClick \/ RunAnalyze \/ RunAgain

SpecAnalyze == InitAnalyze /\ [][NextAnalyze]_vars

(* The same under pointer scripts long enough to overflow the window *)

FeedLong == Feed(MaxFeed)

InitTrack ==
    Starts(Mounted) /\ script \in TrackScripts /\ probe = NoProbe /\ form = CaptchaStep

NextTrack == FeedLong

SpecTrack == InitTrack /\ [][NextTrack]_vars

-----------------------------------------------------------------------------
(* The two task evaluations on their own: a click on a ring some way into   *)
(* its shrink, and evaluateRhythm on the taps of a pattern                  *)

\* how far into a ring's shrink the click lands (percent of its duration): a
\* late expiry timer lets a click land after the duration
ProbePercents == {0, 10, 30, 42, 50, 60, 70, 80, 98, 100, 110, 120}
\* how far from its beat a tap lands (ms)
ProbeOffsets == {-10, 0, 10, 50, 249, 250, 300}
\* a pattern of three beats, next to the three the component plays
ShortBeats == << 0, 600, 1200 >>

Probe(task) ==
    [ task |-> task, i |-> 0, elapsed |-> 0, duration |-> 0,
      beats |-> << >>, taps |-> << >>, out |-> << >> ]

\* ring i on screen, as spawnCircle leaves it
RingShown(i) ==
    SpawnCircle([Mounted EXCEPT !.mode = "precision", !.phase = "target"], i)

ClickProbes ==
    { [Probe("precision") EXCEPT
          !.duration = RingShown(i).activeCircle[1].duration,
          !.elapsed = (RingShown(i).activeCircle[1].duration * pct) \div 100,
          !.i = i] :
      i \in 0..(TOTAL_CIRCLES - 1), pct \in ProbePercents }

\* taps are times since the pattern started
TapsAround(beats, offs) == [k \in 1..Len(beats) |-> beats[k] + offs[k]]

RhythmProbes ==
    { [Probe("rhythm") EXCEPT !.beats = ShortBeats,
                              !.taps = TapsAround(ShortBeats, << a, b, c >>)] :
      a \in {o \in ProbeOffsets : o >= 0}, b \in ProbeOffsets, c \in ProbeOffsets }
    \cup
    { [Probe("rhythm") EXCEPT !.beats = Beats(p),
                              !.taps = [k \in 1..Len(Beats(p)) |-> Beats(p)[k] + lag]] :
      p \in 1..Len(RHYTHM_PATTERNS), lag \in {o \in ProbeOffsets : o >= 0} }

\* handleCircleClick on ring i, probe.elapsed ms after it was spawned: the
\* entry it appends to the ring results
ProbeClick ==
    /\ probe # NoProbe /\ probe.task = "precision" /\ probe.out = << >>
    /\ LET s == HandleCircleClick(Elapse(RingShown(probe.i), probe.elapsed))
       IN  probe' = [probe EXCEPT !.out = << s.circleResults[Len(s.circleResults)] >>]
    /\ UNCHANGED << phase, mode, result, currentPattern, userTaps, activeCircle,
                    circleResults, circlePhase, clickedThisRound, checking,
                    hasReported, analyzer, audioCtx, patternStart, circleTimer,
                    lastMouseTrack, timers, session, calls, user, script, form >>

\* evaluateRhythm on the probe's taps: the taps it matched and the accuracy
\* it hands to showResult
ProbeRhythm ==
    /\ probe # NoProbe /\ probe.task = "rhythm" /\ probe.out = << >>
    /\ probe' = [probe EXCEPT !.out =
                    << [ matched  |-> Matched(probe.taps, probe.beats).matched,
                         accuracy |-> RhythmAccuracy(probe.beats, probe.taps) ] >>]
    /\ UNCHANGED << phase, mode, result, currentPattern, userTaps, activeCircle,
                    circleResults, circlePhase, clickedThisRound, checking,
                    hasReported, analyzer, audioCtx, patternStart, circleTimer,
                    lastMouseTrack, timers, session, calls, user, script, form >>

InitProbe ==
    /\ Starts(Mounted) /\ script = "human" /\ form = CaptchaStep
    /\ probe \in ClickProbes \cup RhythmProbes

NextProbe == ProbeClick \/ ProbeRhythm

SpecProbe == InitProbe /\ [][NextProbe]_vars

-----------------------------------------------------------------------------
(* The properties *)

Analyses == {calls.analyze[k] : k \in 1..Len(calls.analyze)}

SubScores(o) ==
    o.scores.pathNaturalness + o.scores.timingHumanness + o.scores.bioSignal
    + o.scores.velocityProfile + o.scores.taskAccuracy

\* C1: in every session onResult has been invoked at most once, however
\* often the component renders again with a new onResult function, and it has
\* been invoked exactly once whenever the phase is "result"; it is invoked
\* only after an analysis put the phase there.
C1_OnResultOncePerSession ==
    /\ Len(calls.onResult) <= 1
    /\ phase = "result" => Len(calls.onResult) = 1
    /\ calls.onResult # << >> => calls.analyze # << >> /\ hasReported

\* a session begun by a retry holds a verdict that was reported once
C1_ReportedAfterRetry ==
    session = 1 /\ phase = "result" /\ calls.onResult = << TRUE >>

\* C2: every result of analyze has isHuman true exactly when total >= 55.
C2_IsHumanIffAtLeast55 ==
    \A a \in Analyses : a.out.isHuman <=> a.out.total >= 55

\* analyze returned a total of exactly 55, as human
C2_HumanAt55 ==
    \E a \in Analyses : a.out.total = 55 /\ a.out.isHuman

\* C3: in every result the component produces, total is the sum of the five
\* sub-scores and lies in 0..100.
C3_TotalIsSumWithin100 ==
    \A a \in Analyses :
        a.out.total = SubScores(a.out) /\ 0 <= a.out.total /\ a.out.total <= 100

\* C4: the task accuracy a challenge hands to showResult lies in [0, 1], and
\* so the taskAccuracy sub-score of every analysis lies in 0..20, whatever the
\* taps (taps during the settle delay included), clicks and expiries were.
C4_AccuracyInUnitInterval ==
    /\ \A k \in 1..Len(calls.showResult) :
           LET acc == calls.showResult[k].acc
           IN  0 <= acc.n /\ acc.n <= acc.d
    /\ \A a \in Analyses : a.out.scores.taskAccuracy \in 0..20

\* C5: in every result confidence is min(99, round(total * 1.1)), rounding
\* halves up, and so never exceeds 99.
C5_ConfidenceIsCappedRound ==
    \A a \in Analyses :
        LET rounded == (11 * a.out.total + 5) \div 10
        IN  /\ a.out.confidence = IF rounded < 99 THEN rounded ELSE 99
            /\ a.out.confidence <= 99

\* analyze returned a total whose rounded 1.1-fold exceeds 99
C5_CapReached ==
    \E a \in Analyses : a.out.total >= 91 /\ a.out.confidence = 99

\* C6: an analysis of a collector holding fewer than 10 position samples
\* scores pathNaturalness 0.
C6_FewPositionsScoreZero ==
    \A a \in Analyses : a.positions < 10 => a.out.scores.pathNaturalness = 0

\* C7: an analysis whose mode selects a series of fewer than 3 timestamps
\* (taps for rhythm, clicks for precision) scores timingHumanness 0.
C7_FewTimingsScoreZero ==
    \A a \in Analyses : a.timings < 3 => a.out.scores.timingHumanness = 0

\* a precision session with two clicked rings, the others expired, was scored
C7_TwoClicksScored ==
    \E a \in Analyses :
        /\ a.m = "precision" /\ a.gen = session /\ a.timings = 2
        /\ Len(circleResults) = TOTAL_CIRCLES
        /\ a.out.scores.timingHumanness = 0

\* C8: an analysis of a collector holding fewer than 5 velocity samples
\* scores velocityProfile 0.
C8_FewVelocitiesScoreZero ==
    \A a \in Analyses : a.velocities < 5 => a.out.scores.velocityProfile = 0

\* C9: the collector holds at most 150 position and 150 velocity samples:
\* with N samples accepted so far it holds the last min(N, 150) of them in
\* the order of acceptance, so that past 150 its first entry is accepted
\* sample number N - 150, counting from 0.
C9_WindowHoldsLast150 ==
    LET N    == Len(calls.accepted)
        held == Len(analyzer.mousePositions)
    IN  /\ held <= 150 /\ Len(analyzer.mouseVelocities) <= 150
        /\ held = (IF N < 150 THEN N ELSE 150)
        /\ Len(analyzer.mouseVelocities) = held
        /\ \A i \in 1..held :
               /\ analyzer.mousePositions[i].x = calls.accepted[N - held + i].x
               /\ analyzer.mousePositions[i].y = calls.accepted[N - held + i].y
               /\ analyzer.mouseVelocities[i] = calls.accepted[N - held + i].v
        /\ N > 150 =>
               /\ analyzer.mousePositions[1].x = calls.accepted[(N - 150) + 1].x
               /\ analyzer.mousePositions[1].y = calls.accepted[(N - 150) + 1].y

\* more than 150 samples were accepted, some events having been dropped
C9_WindowOverflowed ==
    /\ Len(calls.accepted) > 150
    /\ Len(analyzer.mousePositions) = 150
    /\ user.moves > Len(calls.accepted)

\* C10: the collector of a session begun by a retry starts empty (no
\* samples, no timestamps, counters 0), and every analysis of the session
\* comes from that session's own challenge: none is run on behalf of a
\* completion, with its task accuracy, of the attempt before the retry.
C10_NoLeakAcrossRetry ==
    /\ phase = "idle" =>
           analyzer = [NewAnalyzer EXCEPT !.startTime = analyzer.startTime]
    /\ \A a \in Analyses : a.gen = session

\* C11: every change of the phase follows one of the edges idle -> select,
\* select -> listen, select -> target, listen -> play, play -> listen (replay),
\* play -> checking, target -> checking, checking -> result, result -> idle
\* (retry), whatever the interleaving of user actions and timer callbacks.
C11_OnlyAllowedEdges ==
    [][ phase' # phase =>
            << phase, phase' >> \in
                { << "idle", "select" >>, << "select", "listen" >>,
                  << "select", "target" >>, << "listen", "play" >>,
                  << "play", "listen" >>, << "play", "checking" >>,
                  << "target", "checking" >>, << "checking", "result" >>,
                  << "result", "idle" >> } ]_vars

\* C12: once the phase is "result" it stays "result" until the user presses
\* Try again: no timer callback set earlier in the attempt (the listen-to-play
\* timer of a Replay, the settle timer, the checking timer) moves it away.
C12_ResultUntilRetry ==
    [][ phase = "result" =>
            \/ phase' = "result"
            \/ phase' = "idle" /\ session' = session + 1 ]_vars

\* C13: the session is reset only by Try again, which exists only in phase
\* "result" under a held result with isHuman false: under a result with isHuman
\* true no user action resets the session.  The reset sets the phase to idle,
\* clears mode, result, pattern, taps, ring results and hasReported, and puts
\* a new collector in place of the old one.
C13_RetryOnlyAfterFailure ==
    [][ /\ (result # NoResult /\ result[1].isHuman) => session' = session
        /\ session' # session =>
               /\ phase = "result" /\ result # NoResult /\ ~ result[1].isHuman
               /\ phase' = "idle" /\ mode' = "none" /\ result' = NoResult
               /\ currentPattern' = 0 /\ userTaps' = << >>
               /\ circleResults' = << >> /\ hasReported' = FALSE
               /\ analyzer' = NewAnalyzer ]_vars

\* a retry has just reset a session that had reported a failure
C13_RetriedToIdle ==
    /\ session > 0 /\ phase = "idle" /\ mode = "none" /\ result = NoResult
    /\ ~ hasReported /\ analyzer = NewAnalyzer

\* C14: in each session the challenge reports its completion (calls
\* showResult) exactly once: never more than once, further taps after the tap
\* count reached the beat count included, and once whenever the session is
\* being checked or shows its result.
C14_CompletionReportedOnce ==
    /\ Len(calls.showResult) <= 1
    /\ phase \in {"checking", "result"} => Len(calls.showResult) = 1

\* C15: after a retry, no continuation set before it (the listen-to-play
\* timer, the rhythm settle timer, a ring's expiry or next-ring timer, the
\* checking timer) changes the phase, the result, the ring results or the
\* collector of the new session.
C15_StaleContinuationsInert ==
    [][ ( /\ timers # << >>
          /\ TheTimer.gen < session
          /\ ListenTimer \/ SettleTimer \/ ExpireTimer \/ SpawnTimer \/ CheckTimer )
        => /\ phase' = phase
           /\ result' = result
           /\ circleResults' = circleResults
           /\ analyzer' = ShiftAnalyzer(analyzer, TheTimer.left) ]_vars

\* C16: within one session analyze is invoked at most once, and the result
\* held, once set, is the outcome of that invocation: no other value takes its
\* place before a retry.
C16_OneAnalysisPerSession ==
    /\ [](Len(calls.analyze) <= 1)
    /\ [][ (result # NoResult /\ session' = session) => result' = result ]_vars

\* C17: a ring whose duration elapses without a click appends exactly one
\* entry {hit: false, timing: 1} to the ring results and sets exactly one timer,
\* due after the 400 ms pause, that spawns the next ring index; that timer
\* spawns the index once, and no ring index is put on screen twice.
C17_ExpiryAdvancesOnce ==
    /\ [][ ExpireTimer =>
              /\ circleResults' =
                     Append(circleResults, [hit |-> FALSE, timing |-> [n |-> 1, d |-> 1]])
              /\ \E k \in 1..Len(timers') :
                     /\ timers'[k].kind = "spawn"
                     /\ timers'[k].i = TheTimer.i + 1
                     /\ timers'[k].left = ExpiryPause
                     /\ \A j \in 1..Len(timers') :
                            timers'[j].kind \in {"spawn", "expire"} => j = k ]_vars
    /\ [][ (SpawnTimer /\ TheTimer.i < TOTAL_CIRCLES) =>
              /\ calls'.spawned = Append(calls.spawned, TheTimer.i)
              /\ activeCircle' # << >> /\ circlePhase' = TheTimer.i ]_vars
    /\ [](\A k \in 1..Len(calls.spawned) : calls.spawned[k] = k - 1)

\* the first ring expired unclicked, and the second ring is on screen
C17_SecondRingAfterExpiry ==
    /\ mode = "precision" /\ phase = "target"
    /\ circleResults = << [hit |-> FALSE, timing |-> [n |-> 1, d |-> 1]] >>
    /\ calls.spawned = << 0, 1 >>
    /\ activeCircle # << >> /\ circlePhase = 1

C19_RhythmAccuracyFormula ==
    (probe # NoProbe /\ probe.task = "rhythm" /\ probe.out # << >>) =>
        LET beats == probe.beats
            taps  == probe.taps
            dist  == [k \in 1..Len(taps) |->
                        CHOOSE e \in {Abs(taps[k] - beats[j]) : j \in 1..Len(beats)} :
                            \A j \in 1..Len(beats) : e <= Abs(taps[k] - beats[j])]
            near  == {k \in 1..Len(taps) : dist[k] < 250}
            m     == Cardinality(near)
            err   == SatSum([k \in 1..Len(taps) |-> IF k \in near THEN dist[k] ELSE 0],
                            1, Len(taps))
            \* 0.6 * (m / beatCount) + 0.4 * max(0, 1 - (err / m) / 250)
            value == Frac(3 * m * (m * 250) + 2 * Len(beats) * Max(0, m * 250 - err),
                          5 * Len(beats) * (m * 250))
            acc   == probe.out[1].accuracy
        IN  /\ probe.out[1].matched = m
            /\ m > 0 => acc = value
            /\ (beats = << 0, 600, 1200 >> /\ taps = << 10, 590, 1250 >>) =>
                   /\ m = 3 /\ err = 70
                   /\ acc = Frac(3 * 750 + 2 * (750 - 70), 5 * 750)
                   /\ 2 * 1000 * acc.n >= 1925 * acc.d
                   /\ 2 * 1000 * acc.n < 1927 * acc.d

\* the three-beat example has been evaluated
C19_ExampleEvaluated ==
    /\ probe # NoProbe /\ probe.task = "rhythm" /\ probe.out # << >>
    /\ probe.beats = << 0, 600, 1200 >> /\ probe.taps = << 10, 590, 1250 >>
    /\ probe.out[1].matched = 3

\* C20: when every tap is 250 ms or more from every beat of the pattern,
\* evaluateRhythm counts matched = 0 and reports the accuracy 0 (the mean
\* error of no taps is never computed).
C20_NoMatchScoresZero ==
    (probe # NoProbe /\ probe.task = "rhythm" /\ probe.out # << >>) =>
        ( (\A k \in 1..Len(probe.taps), j \in 1..Len(probe.beats) :
               Abs(probe.taps[k] - probe.beats[j]) >= 250)
          => /\ probe.out[1].matched = 0
             /\ probe.out[1].accuracy = [n |-> 0, d |-> 1] )

\* a whole pattern tapped with every tap 250 ms or more from every beat
C20_AllTapsOffBeat ==
    /\ probe # NoProbe /\ probe.task = "rhythm" /\ probe.out # << >>
    /\ Len(probe.taps) >= Len(probe.beats)
    /\ \A k \in 1..Len(probe.taps), j \in 1..Len(probe.beats) :
           Abs(probe.taps[k] - probe.beats[j]) >= 250
    /\ probe.out[1].matched = 0

\* C21: the form is in its submitted state (verifying, or verified at step 4)
\* only if, since the form was last opened, the component has reported
\* onResult(true) and no onResult(false) after it; and a submission starts
\* only while captchaPassed is true (the Submit button is disabled otherwise).
C21_SubmittedOnlyAfterPass ==
    /\ []( (form.verifying \/ form.verified \/ form.step = 4) =>
               form.reported = << TRUE >> )
    /\ [][ (form'.verifying /\ ~ form.verifying) => form.captchaPassed ]_vars

C23_ThrottleFromLastAccepted ==
    [][ user'.moves = user.moves + 1 =>
          LET dt   == ScriptStep(script, user'.moves).dt
              was  == ShiftAnalyzer(analyzer, dt)
              gap  == Now - was.lastMouseTime
              dx   == user'.x - analyzer.lastMousePos.x
              dy   == user'.y - analyzer.lastMousePos.y
          IN  IF gap < 30
              THEN /\ analyzer' = was
                   /\ calls'.accepted = calls.accepted
              ELSE /\ Len(calls'.accepted) = Len(calls.accepted) + 1
                   /\ calls'.accepted[Len(calls'.accepted)] =
                          [ x |-> user'.x, y |-> user'.y,
                            v |-> [d2 |-> dx * dx + dy * dy, dt |-> gap] ]
                   /\ analyzer'.lastMouseTime = Now
                   /\ analyzer'.lastMousePos = [x |-> user'.x, y |-> user'.y]
                   /\ analyzer'.mousePositions[Len(analyzer'.mousePositions)] =
                          [x |-> user'.x, y |-> user'.y, t |-> Now] ]_vars

\* an event 29 ms after an accepted sample was dropped, and the event 30 ms
\* after it accepted with the displacement of both
C23_AcceptedAfterDrop ==
    /\ script = "jitter" /\ user.moves = 3
    /\ Len(calls.accepted) = 2
    /\ calls.accepted[2].v = [d2 |-> 8, dt |-> 59]

\* C24: analyze is invoked only from the continuation of a completion, and
\* consumes only telemetry accumulated before the completion: while the
\* attempt is being checked, between the call of showResult and the call of
\* analyze, no pointer sample, tap or click is added to the collector.
C24_NoTelemetryWhileChecking ==
    /\ [][ calls'.analyze # calls.analyze => phase = "checking" ]_vars
    /\ [][ phase = "checking" =>
              /\ calls'.accepted = calls.accepted
              /\ Len(analyzer'.mousePositions) = Len(analyzer.mousePositions)
              /\ Len(analyzer'.tapTimings) = Len(analyzer.tapTimings)
              /\ Len(analyzer'.clickTimings) = Len(analyzer.clickTimings) ]_vars

C26_ClickCancelsExpiry ==
    /\ []( mode = "precision" =>
              Len(circleResults) =
                  Len(calls.spawned) - (IF activeCircle # << >> THEN 1 ELSE 0) )
    /\ []( clickedThisRound =>
              /\ activeCircle = << >>
              /\ \A k \in 1..Len(timers) : timers[k].kind # "expire" )
    /\ [][ (mode = "precision" /\
             Len(analyzer'.clickTimings) = Len(analyzer.clickTimings) + 1) =>
              /\ activeCircle # << >> /\ ~ clickedThisRound /\ clickedThisRound'
              /\ Len(circleResults') = Len(circleResults) + 1
              /\ calls'.spawned = calls.spawned
              /\ \A k \in 1..Len(timers') : timers'[k].kind # "expire"
              /\ Cardinality({ k \in 1..Len(timers') :
                                  /\ timers'[k].kind = "spawn"
                                  /\ timers'[k].i = circlePhase + 1
                                  /\ timers'[k].left = ClickPause }) = 1
              /\ Cardinality({ k \in 1..Len(timers') : timers'[k].kind = "spawn" }) = 1
          ]_vars
    /\ [][ (clickedThisRound /\ clickedThisRound') =>
              /\ circleResults' = circleResults
              /\ Len(analyzer'.clickTimings) = Len(analyzer.clickTimings)
              /\ calls'.spawned = calls.spawned ]_vars

\* the first ring was clicked and, 500 ms later, the second ring is up
C26_NextRingAfterClicks ==
    /\ mode = "precision" /\ phase = "target"
    /\ calls.spawned = << 0, 1 >> /\ activeCircle # << >>
    /\ Len(analyzer.clickTimings) = 1
    /\ Len(circleResults) = 1 /\ circleResults[1].timing # [n |-> 1, d |-> 1]

\* C27: the precision branch reports completion only when exactly 5 ring
\* results are recorded, and the accuracy it reports is
\* 0.5 * (hits / 5) + 0.5 * (sum of the five timings / 5), that is
\* (hits + sum of the timings) / 10.
C27_PrecisionCompletion ==
    \A k \in 1..Len(calls.showResult) :
        calls.showResult[k].m = "precision" =>
            /\ Len(circleResults) = 5
            /\ LET r    == circleResults
                   hits == Cardinality({ j \in 1..5 : r[j].hit })
                   sum  == FracAdd(r[1].timing, FracAdd(r[2].timing,
                               FracAdd(r[3].timing, FracAdd(r[4].timing, r[5].timing))))
               IN  calls.showResult[k].acc = Frac(hits * sum.d + sum.n, 10 * sum.d)

\* a completion reported for five results, among them a hit and an early click
C27_MixedResultsReported ==
    /\ mode = "precision" /\ phase = "checking"
    /\ \E k \in 1..Len(calls.showResult) : calls.showResult[k].m = "precision"
    /\ Len(circleResults) = 5
    /\ \E i, j \in 1..5 :
           /\ circleResults[i].hit
           /\ ~ circleResults[j].hit /\ circleResults[j].timing # [n |-> 1, d |-> 1]

\* C28: a rhythm evaluation is scheduled only by a tap in phase play that
\* brings the taps of that play phase to the beat count of the pattern or
\* beyond, 300 ms ahead, for those taps and that pattern; once the taps have
\* reached the beat count the phase eventually becomes checking, and the
\* evaluation that runs scores the taps against the pattern they were made to.
C28_EvaluationAfterLastTap ==
    /\ [][ \A k \in 1..Len(timers') :
               (timers'[k].kind = "settle" /\
                \A j \in 1..Len(timers) : timers[j].id # timers'[k].id) =>
                   /\ phase = "play" /\ currentPattern # 0
                   /\ currentPattern' = currentPattern
                   /\ userTaps' # userTaps
                   /\ Len(userTaps') >= Len(Beats(currentPattern))
                   /\ timers'[k].left = SettleDelay
                   /\ timers'[k].taps = userTaps'
                   /\ timers'[k].pat = currentPattern ]_vars
    /\ [][ (phase = "play" /\ currentPattern # 0 /\
             Len(userTaps) < Len(Beats(currentPattern)) /\
             Len(userTaps') >= Len(Beats(currentPattern))) =>
               \E k \in 1..Len(timers') :
                   /\ timers'[k].kind = "settle" /\ timers'[k].left = SettleDelay
                   /\ \A j \in 1..Len(timers') : timers'[j].left >= SettleDelay ]_vars
    /\ [][ (mode = "rhythm" /\ Len(calls'.showResult) > Len(calls.showResult)) =>
               /\ TheTimer.kind = "settle"
               /\ phase' = "checking"
               /\ calls'.showResult[Len(calls'.showResult)].acc =
                      RhythmAccuracy(Beats(TheTimer.pat), TheTimer.taps) ]_vars
    /\ (mode = "rhythm" /\ phase = "play" /\ currentPattern # 0 /\
         Len(userTaps) >= Len(Beats(currentPattern))) ~> (phase = "checking")

\* the pattern tapped out, the user asked for another one before the taps
\* were evaluated, and the taps are being checked
C28_EvaluatedAfterReplay ==
    /\ mode = "rhythm" /\ phase = "checking" /\ session = 0
    /\ user.replays = 1 /\ Len(calls.showResult) = 1
    /\ Len(userTaps) >= 8
    /\ \E k \in 1..Len(timers) : timers[k].kind = "play"

\* C29: whenever the phase becomes listen it eventually becomes play, by a
\* timer alone; the phase leaves listen for play when the timer set on
\* entering listen is due (last beat offset + 800 ms later), so that no such
\* timer is pending any more, and the step that makes the phase play empties
\* the running tap list and sets the pattern start reference to its own time.
C29_ListenEndsInPlay ==
    /\ [][ (phase # "play" /\ phase' = "play") =>
              /\ timers # << >> /\ TheTimer.kind = "play"
              /\ userTaps' = << >>
              /\ patternStart' = << Now >> ]_vars
    /\ [][ (phase # "listen" /\ phase' = "listen") =>
              \E k \in 1..Len(timers') :
                  /\ timers'[k].kind = "play"
                  /\ timers'[k].left = Beats(currentPattern')[Len(Beats(currentPattern'))] + 800 ]_vars
    /\ [][ (phase = "listen" /\ phase' = "play") =>
              \A k \in 1..Len(timers') : timers'[k].kind # "play" ]_vars
    /\ (phase = "listen") ~> (phase = "play")

\* C30: whenever the phase becomes checking a checking timer is due in 2200 ms
\* and none earlier; the phase leaves checking only when a checking timer
\* fires, for result, with a result set and analyze called in that step; in
\* checking no other step calls analyze, changes the phase or touches the
\* pending checking timers; and checking is always followed by result.
C30_CheckingEndsInResult ==
    /\ [][ (phase # "checking" /\ phase' = "checking") =>
              /\ \E k \in 1..Len(timers') : timers'[k].kind = "check"
              /\ \A k \in 1..Len(timers') :
                     timers'[k].kind = "check" => timers'[k].left = CheckingDelay ]_vars
    /\ [][ (phase = "checking" /\ phase' # "checking") =>
              /\ timers # << >> /\ TheTimer.kind = "check"
              /\ phase' = "result" /\ result' # NoResult
              /\ Len(calls'.analyze) = Len(calls.analyze) + 1 ]_vars
    /\ [][ (phase = "checking" /\ phase' = "checking") =>
              /\ Len(calls'.analyze) = Len(calls.analyze)
              /\ \A k \in 1..Len(timers) :
                     timers[k].kind = "check" =>
                         \E j \in 1..Len(timers') :
                             /\ timers'[j].id = timers[k].id
                             /\ timers[k].left - timers'[j].left =
                                    analyzer.startTime - analyzer'.startTime ]_vars
    /\ [](phase = "result" => result # NoResult)
    /\ (phase = "checking") ~> (phase = "result")

\* the user moved the pointer while the attempt was being checked, and the
\* result is there
C30_ResultAfterLateMove ==
    /\ phase = "result" /\ result # NoResult
    /\ user.moves = 1 /\ Len(calls.accepted) = 1
    /\ Len(calls.analyze) = 1

\* C31: within a session the tap series and the click series of the collector
\* only grow (every timestamp held stays, in place); a tap accepted into the
\* running tap list appends exactly one timestamp, the time of the tap, to
\* the tap series, and the tap series grows in no other step; an accepted
\* ring click appends exactly one timestamp to the click series, and a step
\* of the precision branch that is not an accepted click, an expiry among
\* them, appends nothing to it.
C31_SeriesAppendOnly ==
    /\ [][ session' = session =>
              LET d == analyzer.startTime - analyzer'.startTime
              IN  /\ Len(analyzer'.tapTimings) >= Len(analyzer.tapTimings)
                  /\ \A i \in 1..Len(analyzer.tapTimings) :
                         analyzer'.tapTimings[i] = analyzer.tapTimings[i] - d
                  /\ Len(analyzer'.clickTimings) >= Len(analyzer.clickTimings)
                  /\ \A i \in 1..Len(analyzer.clickTimings) :
                         analyzer'.clickTimings[i] = analyzer.clickTimings[i] - d ]_vars
    /\ [][ (session' = session /\ Len(userTaps') > Len(userTaps)) =>
              /\ Len(userTaps') = Len(userTaps) + 1
              /\ Len(analyzer'.tapTimings) = Len(analyzer.tapTimings) + 1
              /\ analyzer'.tapTimings[Len(analyzer'.tapTimings)] = Now ]_vars
    /\ [][ (session' = session /\ Len(userTaps') <= Len(userTaps)) =>
              Len(analyzer'.tapTimings) = Len(analyzer.tapTimings) ]_vars
    /\ [][ (session' = session /\ mode = "precision" /\ mode' = "precision") =>
              IF clickedThisRound' /\ ~ clickedThisRound
              THEN /\ Len(analyzer'.clickTimings) = Len(analyzer.clickTimings) + 1
                   /\ analyzer'.clickTimings[Len(analyzer'.clickTimings)] = Now
              ELSE Len(analyzer'.clickTimings) = Len(analyzer.clickTimings) ]_vars

\* a ring has expired and another has been clicked
C31_OneClickOneExpiry ==
    /\ mode = "precision" /\ Len(circleResults) = 2
    /\ Len(analyzer.clickTimings) = 1
    /\ circleResults[1].timing = [n |-> 1, d |-> 1] /\ ~ circleResults[1].hit

\* C32: a pointer sample that is accepted increments microMovements exactly
\* when its displacement from the last accepted sample is strictly between 0
\* and 3, and hesitations exactly when more than 200 ms have passed since the
\* last accepted sample and the displacement exceeds 5; a dropped event
\* changes neither counter; before the first sample the reference is position
\* (0, 0) at clock value 0.
C32_CountersPerSample ==
    /\ []( calls.accepted = << >> =>
              /\ analyzer.lastMousePos = [x |-> 0, y |-> 0]
              /\ analyzer.lastMouseTime = Epoch
              /\ analyzer.microMovements = 0 /\ analyzer.hesitations = 0 )
    /\ [][ user'.moves = user.moves + 1 =>
              LET gap == IF analyzer.lastMouseTime = Epoch THEN Now - Epoch
                         ELSE ScriptStep(script, user'.moves).dt - analyzer.lastMouseTime
                  dx  == user'.x - analyzer.lastMousePos.x
                  dy  == user'.y - analyzer.lastMousePos.y
                  d2  == dx * dx + dy * dy
                  micro == IF d2 > 0 /\ d2 < 9 THEN 1 ELSE 0
                  hes   == IF gap > 200 /\ d2 > 25 THEN 1 ELSE 0
              IN  IF Len(calls'.accepted) = Len(calls.accepted)
                  THEN /\ analyzer'.microMovements = analyzer.microMovements
                       /\ analyzer'.hesitations = analyzer.hesitations
                  ELSE /\ analyzer'.microMovements = analyzer.microMovements + micro
                       /\ analyzer'.hesitations = analyzer.hesitations + hes ]_vars

\* samples at the thresholds were accepted: displacements 3, 5, 6 after
\* 200 ms, 6 after 201 ms, 0, and a displacement below 3
C32_ThresholdsPassed ==
    /\ script = "edge" /\ user.moves = 6 /\ Len(calls.accepted) = 6
    /\ analyzer.microMovements = 1 /\ analyzer.hesitations = 1

\* C33: the position sequence and the velocity sequence of the collector have
\* the same length, and the velocity at index i is the one computed when the
\* position at index i was accepted: the displacement and the time from the
\* sample accepted before it (for the first sample ever, from (0, 0) at clock
\* value 0), also after the oldest entries have been evicted.
C33_VelocitiesAligned ==
    LET p == analyzer.mousePositions
        v == analyzer.mouseVelocities
        N == Len(calls.accepted)
    IN  /\ Len(p) = Len(v)
        /\ \A i \in 2..Len(p) :
               v[i] = [ d2 |-> (p[i].x - p[i-1].x) * (p[i].x - p[i-1].x)
                               + (p[i].y - p[i-1].y) * (p[i].y - p[i-1].y),
                        dt |-> p[i].t - p[i-1].t ]
        /\ (Len(p) > 0 /\ N = Len(p)) =>
               v[1] = [d2 |-> p[1].x * p[1].x + p[1].y * p[1].y, dt |-> Now - Epoch]
        /\ (Len(p) > 0 /\ N > Len(p)) =>
               /\ v[1] = calls.accepted[N - Len(p) + 1].v
               /\ p[1].x = calls.accepted[N - Len(p) + 1].x
               /\ p[1].y = calls.accepted[N - Len(p) + 1].y

\* the oldest sample has been evicted from both sequences
C33_EvictedTogether ==
    /\ script = "human"
    /\ Len(calls.accepted) = 151
    /\ Len(analyzer.mousePositions) = 150 /\ Len(analyzer.mouseVelocities) = 150

\* C34: whenever the phase is result, a verdict has been passed to onResult in
\* this session and the last one passed is isHuman of the result held.
C34_VerdictDeliveredIsHeld ==
    phase = "result" =>
        /\ result # NoResult
        /\ calls.onResult # << >>
        /\ calls.onResult[Len(calls.onResult)] = result[1].isHuman

\* C35: phase, mode and session data are consistent in every reachable state:
\* phase listen or play implies mode rhythm and a current pattern; phase
\* target implies mode precision; phase result implies a result; phase idle
\* implies no mode, no result, no pattern, no ring results and no taps.
C35_PhaseModeConsistent ==
    /\ phase \in {"listen", "play"} => (mode = "rhythm" /\ currentPattern # 0)
    /\ phase = "target" => mode = "precision"
    /\ phase = "result" => result # NoResult
    /\ phase = "idle" =>
           /\ mode = "none" /\ result = NoResult /\ currentPattern = 0
           /\ circleResults = << >> /\ userTaps = << >>

\* C36: a tap is added to the tap list, and a timestamp to the tap series,
\* only in phase play; a ring result that comes with a click timestamp is
\* added only in phase target with an active ring not yet clicked this round;
\* in every other state handleRhythmTap, and likewise handleCircleClick,
\* leaves the tap list, the ring results, the tap and click series of the
\* collector and the timers as they are.
C36_HandlersGuarded ==
    /\ []( phase # "play" =>
              LET t == HandleRhythmTap(Cur)
              IN  /\ t.userTaps = userTaps /\ t.circleResults = circleResults
                  /\ t.analyzer.tapTimings = analyzer.tapTimings
                  /\ t.analyzer.clickTimings = analyzer.clickTimings
                  /\ t.timers = timers )
    /\ []( ~ (phase = "target" /\ activeCircle # << >> /\ ~ clickedThisRound) =>
              LET t == HandleCircleClick(Cur)
              IN  /\ t.userTaps = userTaps /\ t.circleResults = circleResults
                  /\ t.analyzer.tapTimings = analyzer.tapTimings
                  /\ t.analyzer.clickTimings = analyzer.clickTimings
                  /\ t.timers = timers )
    /\ [][ (session' = session /\
            (Len(userTaps') > Len(userTaps) \/
             Len(analyzer'.tapTimings) > Len(analyzer.tapTimings))) =>
               phase = "play" ]_vars
    /\ [][ (session' = session /\ mode = "precision" /\
            Len(analyzer'.clickTimings) > Len(analyzer.clickTimings)) =>
               (phase = "target" /\ activeCircle # << >> /\ ~ clickedThisRound) ]_vars

\* two rings have been clicked and the third is not up yet, so that a click
\* on the field is one the handler is to ignore
C36_ClickedAndIgnored ==
    /\ mode = "precision" /\ phase = "target"
    /\ activeCircle = << >> /\ clickedThisRound
    /\ Len(circleResults) = 2 /\ Len(analyzer.clickTimings) = 2

\* C37: Replay, pressed in phase play, sets phase listen with a pattern chosen
\* anew and leaves the collector and the running tap list as they are; when
\* play is entered again the running tap list is emptied and the tap series
\* of the collector is kept; and a later analyze of the rhythm scores the
\* whole tap series held, the taps from before the Replay included.
C37_ReplayKeepsCollector ==
    /\ [][ user'.replays = user.replays + 1 =>
              /\ phase = "play" /\ phase' = "listen"
              /\ currentPattern' \in 1..Len(RHYTHM_PATTERNS)
              /\ userTaps' = userTaps
              /\ Len(analyzer'.tapTimings) = Len(analyzer.tapTimings)
              /\ Len(analyzer'.clickTimings) = Len(analyzer.clickTimings)
              /\ Len(analyzer'.mousePositions) = Len(analyzer.mousePositions)
              /\ analyzer'.microMovements = analyzer.microMovements
              /\ analyzer'.hesitations = analyzer.hesitations
              /\ analyzer'.startTime < analyzer.startTime ]_vars
    /\ [][ (phase # "play" /\ phase' = "play") =>
              /\ userTaps' = << >>
              /\ Len(analyzer'.tapTimings) = Len(analyzer.tapTimings) ]_vars
    /\ [][ (session' = session /\ phase = "listen") =>
              Len(analyzer'.tapTimings) = Len(analyzer.tapTimings) ]_vars
    /\ [][ (Len(calls'.analyze) > Len(calls.analyze) /\
            calls'.analyze[Len(calls'.analyze)].m = "rhythm") =>
              calls'.analyze[Len(calls'.analyze)].timings = Len(analyzer.tapTimings) ]_vars

\* two taps, Replay, the new pattern tapped back: analyze has scored more
\* taps than the running tap list holds
C37_ScoredTapsBeforeReplay ==
    /\ mode = "rhythm" /\ phase = "result" /\ session = 0
    /\ user.replays = 1
    /\ Len(calls.analyze) = 1 /\ Len(userTaps) = Len(Beats(currentPattern))
    /\ calls.analyze[1].timings = Len(userTaps) + 2

\* C38: a precision session in phase target always has its next step coming
\* by a timer (a ring awaiting its expiry, or the next ring awaiting its
\* spawn) until five ring results are held; the phase leaves target for
\* checking only, in the step that records the fifth ring result, which
\* reports the completion; and phase target is always followed by checking
\* and then by result.
C38_PrecisionTerminates ==
    /\ [](( mode = "precision" /\ phase = "target" ) =>
             /\ Len(circleResults) < TOTAL_CIRCLES
             /\ \/ /\ activeCircle # << >>
                   /\ \E k \in 1..Len(timers) :
                         timers[k].kind = "expire" /\ timers[k].i = circlePhase
                \/ /\ activeCircle = << >>
                   /\ \E k \in 1..Len(timers) :
                         timers[k].kind = "spawn" /\ timers[k].i = Len(circleResults))
    /\ [][ (phase = "target" /\ phase' # "target") =>
              /\ phase' = "checking"
              /\ Len(circleResults) = TOTAL_CIRCLES - 1
              /\ Len(circleResults') = TOTAL_CIRCLES
              /\ Len(calls'.showResult) = Len(calls.showResult) + 1
              /\ calls'.showResult[Len(calls'.showResult)].m = "precision" ]_vars
    /\ [](( mode = "precision" /\ Len(circleResults) = TOTAL_CIRCLES ) =>
             phase \in {"checking", "result"})
    /\ (phase = "target") ~> (phase = "checking")
    /\ (phase = "target") ~> (phase = "result")

\* C39: every ring that expires (a ring result recorded without a click)
\* adds one ring result that is no hit and has timing 1, so that the hit count stays and the sum of the timings grows by
\* 1; a completion reported for five expired rings reports accuracy 0.5; and
\* a precision analysis of accuracy 0.5 gives a taskAccuracy sub-score of 10.
C39_ExpiredRingsHalfAccuracy ==
    /\ [][ ( /\ Len(circleResults') > Len(circleResults)
             /\ Len(analyzer'.clickTimings) = Len(analyzer.clickTimings) ) =>
              /\ Len(circleResults') = Len(circleResults) + 1
              /\ \A j \in 1..Len(circleResults) : circleResults'[j] = circleResults[j]
              /\ ~ circleResults'[Len(circleResults')].hit
              /\ circleResults'[Len(circleResults')].timing = [n |-> 1, d |-> 1]
              /\ Cardinality({ j \in 1..Len(circleResults') : circleResults'[j].hit }) =
                     Cardinality({ j \in 1..Len(circleResults) : circleResults[j].hit })
              /\ LET a == TimingSum(circleResults)
                     b == TimingSum(circleResults')
                 IN  b.n * a.d = (a.n + a.d) * b.d ]_vars
    /\ [][ ( /\ Len(calls'.showResult) > Len(calls.showResult)
             /\ calls'.showResult[Len(calls'.showResult)].m = "precision"
             /\ \A j \in 1..Len(circleResults') :
                    ~ circleResults'[j].hit /\ circleResults'[j].timing = [n |-> 1, d |-> 1] ) =>
              /\ Len(circleResults') = 5
              /\ calls'.showResult[Len(calls'.showResult)].acc = [n |-> 1, d |-> 2] ]_vars
    /\ [](\A k \in 1..Len(calls.analyze) :
             ( calls.analyze[k].m = "precision" /\ calls.analyze[k].acc = [n |-> 1, d |-> 2] ) =>
                 calls.analyze[k].out.scores.taskAccuracy = 10)

\* all five rings expired unclicked and the session was analysed
C39_AllFiveExpired ==
    /\ mode = "precision" /\ phase = "result"
    /\ Len(circleResults) = 5
    /\ \A j \in 1..5 : ~ circleResults[j].hit /\ circleResults[j].timing = [n |-> 1, d |-> 1]
    /\ Len(analyzer.clickTimings) = 0
    /\ Len(calls.analyze) = 1
    /\ calls.analyze[1].acc = [n |-> 1, d |-> 2]
    /\ result[1].scores.taskAccuracy = 10

\* C40: no step of a session lowers microMovements or hesitations; a sample
\* accepted while the window is full, which evicts the oldest sample held,
\* changes each counter by what the new sample alone adds; each counter
\* counts among all the samples accepted in the session, held or evicted,
\* and so is at most their number, while it can exceed the number held.
C40_CountersOutliveWindow ==
    /\ [][ /\ analyzer'.microMovements >= analyzer.microMovements
           /\ analyzer'.hesitations >= analyzer.hesitations ]_vars
    /\ [][ ( /\ Len(analyzer.mousePositions) = WindowSize
             /\ Len(calls'.accepted) = Len(calls.accepted) + 1 ) =>
              LET new == calls'.accepted[Len(calls'.accepted)]
              IN  /\ Len(analyzer'.mousePositions) = WindowSize
                  /\ analyzer'.mousePositions[1].x = analyzer.mousePositions[2].x
                  /\ analyzer'.mousePositions[1].y = analyzer.mousePositions[2].y
                  /\ analyzer'.microMovements - analyzer.microMovements =
                         (IF new.v.d2 > 0 /\ new.v.d2 < 9 THEN 1 ELSE 0)
                  /\ analyzer'.hesitations - analyzer.hesitations =
                         (IF new.v.dt > 200 /\ new.v.d2 > 25 THEN 1 ELSE 0) ]_vars
    /\ [](LET N == Len(calls.accepted)
          IN  /\ analyzer.microMovements =
                     Cardinality({ k \in 1..N : calls.accepted[k].v.d2 > 0 /\ calls.accepted[k].v.d2 < 9 })
              /\ analyzer.hesitations =
                     Cardinality({ k \in 1..N : calls.accepted[k].v.dt > 200 /\ calls.accepted[k].v.d2 > 25 })
              /\ analyzer.microMovements <= N /\ analyzer.hesitations <= N)

\* more micro-movements counted than samples held: the ratio analyze
\* computes is above 1
C40_MoreCountedThanHeld ==
    /\ Len(calls.accepted) > WindowSize
    /\ Len(analyzer.mousePositions) = WindowSize
    /\ analyzer.microMovements > Len(analyzer.mousePositions)
    /\ analyzer.microMovements <= Len(calls.accepted)

====
